---- MODULE Spec2Model ----
(***************************************************************************)
(* Call/session orchestration and signaling relay of the reception server  *)
(* (src/unnamed/part_000): the in-memory registries, the socket event      *)
(* handlers that mutate them, and the socket.io deliveries they cause.     *)
(***************************************************************************)
EXTENDS Integers, Sequences, FiniteSets, TLC

\* ---------------------------------------------------------------- bounds
MaxSockets == 3
MaxCalls == 2
MaxRequests == 2
MaxJoins == 1
MaxTime == 1
MaxProcs == 2

\* ------------------------------------------------------------ JS values
\* JavaScript's undefined (a missing map entry, an absent payload field).
Undef == "undefined"

\* socket.id of the i-th connection; ids are never reused.
SockId(i) == "s" \o ToString(i)
Sockets == {SockId(i) : i \in 1..MaxSockets}

\* `call_${Date.now()}_${random}` : a fresh id per session.
CallId(i) == "call" \o ToString(i)
\* `vcr_${Date.now()}_${random}` : a fresh id per video-call request.
VcrId(i) == "vcr" \o ToString(i)
\* `req_${Date.now()}_${random}` : a fresh id per email-targeted request.
ReqId(i) == "req" \o ToString(i)

\* ------------------------------------------------------ staff directory
\* staff-profiles.js: the static directory, in file order.
staffProfiles ==
  << [shortName |-> "ACS", name |-> "Prof. Anitha C S", email |-> "acs@college.edu"],
     [shortName |-> "LDN", name |-> "Dr. Lakshmi Durga N", email |-> "ldn@college.edu"] >>

NoProfile == [shortName |-> Undef, name |-> Undef, email |-> Undef]

\* Array.prototype.find: the first element satisfying P, or undefined.
Find(arr, P(_)) ==
  IF \E i \in DOMAIN arr : P(arr[i])
  THEN arr[CHOOSE i \in DOMAIN arr : P(arr[i]) /\ \A j \in 1..(i - 1) : ~P(arr[j])]
  ELSE NoProfile

\* String.prototype.toLowerCase on the strings the model uses.
ToLowerCase(str) ==
  CASE str = "ACS" -> "acs"
    [] str = "LDN" -> "ldn"
    [] str = "Prof. Anitha C S" -> "prof. anitha c s"
    [] str = "Dr. Lakshmi Durga N" -> "dr. lakshmi durga n"
    [] str = "Anitha" -> "anitha"
    [] str = "LDN@College.edu" -> "ldn@college.edu"
    [] OTHER -> str

\* String.prototype.includes on lower-cased strings the model uses.
Includes(hay, needle) ==
  \/ hay = needle
  \/ hay = "prof. anitha c s" /\ needle \in {"anitha", "prof.", "anitha c s"}
  \/ hay = "dr. lakshmi durga n" /\ needle \in {"lakshmi", "dr."}

\* JS truthiness of an optional string field.
Truthy(v) == v # Undef /\ v # ""

\* ------------------------------------------------------------ variables
VARIABLES
  connected,            \* sockets with a live transport
  closed,               \* sockets whose 'disconnect' has fired
  rooms,                \* socket -> rooms joined with socket.join
  dbConnected,          \* mongoose.connection.readyState === 1
  now,                  \* the server clock, in seconds
  connectedUsers,       \* socketId -> user
  staffSessions,        \* staffKey -> socketId
  staffEmailSessions,   \* staffEmail -> socketId
  activeCalls,          \* callId -> call session, in insertion order
  videoCallRequests,    \* requestId -> video call request
  pendingVideoCalls,    \* staffId -> requestIds
  pendingStaffCalls,    \* staffId -> queued calls
  incomingCallRequests, \* requestId -> email-targeted request
  staffCallLog,         \* the StaffCallLog collection
  waitingCalls,         \* socketId -> call
  clientSessions,       \* client user id -> socketId
  waitingDocs,          \* Call documents stored with status 'waiting': id -> staffId
  nCall, nVcr, nReq,    \* ids handed out so far
  exiting,              \* an unhandled rejection has scheduled process.exit
  requester,            \* request id -> the socket that sent it (history only)
  procs,                \* handlers suspended at an await
  out,                  \* what the last step delivered, to whom
  last,                 \* the event the last step handled
  hist                  \* counts of deliveries over the whole run

vars == << connected, closed, rooms, dbConnected, now, connectedUsers,
           staffSessions, staffEmailSessions, activeCalls, videoCallRequests,
           pendingVideoCalls, pendingStaffCalls, incomingCallRequests,
           staffCallLog, waitingCalls, clientSessions, waitingDocs, nCall, nVcr, nReq,
           exiting, requester, procs, out, last, hist >>

\* ------------------------------------------------------------ Map helpers
\* Map.prototype.get / has / set / delete on a function with a dynamic domain.
MapGet(m, k) == IF k \in DOMAIN m THEN m[k] ELSE Undef
MapHas(m, k) == k \in DOMAIN m
MapSet(m, k, v) == [x \in DOMAIN m \cup {k} |-> IF x = k THEN v ELSE m[x]]
MapDelete(m, k) == [x \in DOMAIN m \ {k} |-> m[x]]
EmptyMap == [x \in {} |-> Undef]

\* (map.get(k) || []) for the array-valued maps.
GetList(m, k) == IF k \in DOMAIN m THEN m[k] ELSE << >>

\* Array.prototype.filter
Filter(arr, P(_)) == SelectSeq(arr, P)

\* activeCalls is kept as the Map's entry list: get, set, delete by callId.
CallIndex(calls, callId) ==
  IF \E i \in DOMAIN calls : calls[i].callId = callId
  THEN CHOOSE i \in DOMAIN calls : calls[i].callId = callId
  ELSE 0

CallHas(calls, callId) == CallIndex(calls, callId) # 0
CallGet(calls, callId) == calls[CallIndex(calls, callId)]
CallSet(calls, session) ==
  IF CallHas(calls, session.callId)
  THEN [calls EXCEPT ![CallIndex(calls, session.callId)] = session]
  ELSE Append(calls, session)
CallDelete(calls, callId) ==
  [j \in 1..(Len(calls) - (IF CallHas(calls, callId) THEN 1 ELSE 0)) |->
     IF j < CallIndex(calls, callId) \/ ~CallHas(calls, callId)
     THEN calls[j] ELSE calls[j + 1]]

\* ------------------------------------------------------------- socket.io
\* The sockets an emit reaches.  kind "socket": socket.emit, the one socket;
\* "room": io.to(room), every socket in the room (each socket is in the room
\* named by its own id); "except": socket.to(room), the room minus the sender;
\* "all": io.emit.
InRoom(s, room) == s = room \/ room \in rooms[s]

Recipients(conn, e) ==
  CASE e.kind = "socket" -> {s \in conn : s = e.room}
    [] e.kind = "room" -> {s \in conn : InRoom(s, e.room)}
    [] e.kind = "except" -> {s \in conn : InRoom(s, e.room) /\ s # e.from}
    [] e.kind = "all" -> conn

Emit(kind, room, ev, id, from) ==
  [kind |-> kind, room |-> room, ev |-> ev, id |-> id, from |-> from]

\* The deliveries of a handler step that made the emits `es`, in order.
Deliver(conn, es) ==
  UNION {{[n |-> i, to |-> s, ev |-> es[i].ev, id |-> es[i].id, from |-> es[i].from] :
            s \in Recipients(conn, es[i])} : i \in DOMAIN es}

\* The registries of the server process.
Registries == << connectedUsers, staffSessions, staffEmailSessions, activeCalls,
                 videoCallRequests, pendingVideoCalls, pendingStaffCalls,
                 incomingCallRequests, waitingCalls, clientSessions, waitingDocs >>

netVars == << connected, closed, rooms >>
envVars == << dbConnected, now >>
presenceVars == << connectedUsers, staffSessions, staffEmailSessions >>
requestVars == << videoCallRequests, pendingVideoCalls, pendingStaffCalls,
                 incomingCallRequests, nVcr, nReq >>
convVars == << waitingCalls, clientSessions, waitingDocs >>

\* Deliveries of the tracked events are counted over the whole run.
TrackedEvents == {"call-ended", "new-call-request", "pending-video-calls", "call-accepted"}
MaxCount == 2

Bump(h, k) == MapSet(h, k, IF MapHas(h, k) /\ h[k] < MaxCount THEN h[k] + 1
                           ELSE IF MapHas(h, k) THEN h[k] ELSE 1)

RECURSIVE BumpAll(_, _)
BumpAll(h, ds) ==
  IF ds = {} THEN h
  ELSE LET d == CHOOSE x \in ds : TRUE
       IN BumpAll(Bump(h, << d.ev, d.id, d.to >>), ds \ {d})

Count(h, ev, id, to) == IF MapHas(h, << ev, id, to >>) THEN h[<< ev, id, to >>] ELSE 0

\* What every handler step records: its deliveries, the event, and whether it
\* changed a registry.
Record(conn, es, ev, sock, id, pre) ==
  /\ out' = Deliver(conn, es)
  /\ hist' = BumpAll(hist, {d \in Deliver(conn, es) : d.ev \in TrackedEvents})
  /\ last' = [ev |-> ev, sock |-> sock, id |-> id, pre |-> pre,
              changed |-> (Registries' # Registries)]

NoUser == [role |-> "none", id |-> Undef, email |-> Undef, name |-> Undef, db |-> FALSE]

Init ==
  /\ connected = {}
  /\ closed = {}
  /\ rooms = [s \in Sockets |-> {}]
  /\ dbConnected = FALSE
  /\ now = 0
  /\ connectedUsers = EmptyMap
  /\ staffSessions = EmptyMap
  /\ staffEmailSessions = EmptyMap
  /\ activeCalls = << >>
  /\ videoCallRequests = EmptyMap
  /\ pendingVideoCalls = EmptyMap
  /\ pendingStaffCalls = EmptyMap
  /\ incomingCallRequests = EmptyMap
  /\ staffCallLog = << >>
  /\ waitingCalls = EmptyMap
  /\ clientSessions = EmptyMap
  /\ waitingDocs = EmptyMap
  /\ nCall = 0
  /\ nVcr = 0
  /\ nReq = 0
  /\ exiting = FALSE
  /\ requester = EmptyMap
  /\ procs = {}
  /\ out = {}
  /\ last = [ev |-> "start", sock |-> Undef, id |-> << >>, pre |-> {}, changed |-> FALSE]
  /\ hist = EmptyMap

\* ------------------------------------------------------------ environment
\* io.on('connection'): the next socket connects.
Connect ==
  /\ Cardinality(connected \cup closed) < MaxSockets
  /\ LET s == SockId(Cardinality(connected \cup closed) + 1)
     IN /\ connected' = connected \cup {s}
        /\ UNCHANGED << closed, rooms, envVars, Registries, staffCallLog, nCall, nVcr,
                        nReq, exiting, requester, procs >>
        /\ Record(connected', << >>, "connection", s, << >>, {})

\* The database connection comes up or goes down.
DbChange ==
  /\ dbConnected' = ~dbConnected
  /\ UNCHANGED << netVars, now, Registries, staffCallLog, nCall, nVcr, nReq, exiting,
                  requester, procs >>
  /\ Record(connected, << >>, "db", Undef, << >>, {})

\* Time passes.
Tick ==
  /\ now < MaxTime
  /\ now' = now + 1
  /\ UNCHANGED << netVars, dbConnected, Registries, staffCallLog, nCall, nVcr, nReq,
                  exiting, requester, procs >>
  /\ Record(connected, << >>, "tick", Undef, << >>, {})

\* connectedUsers.get(socketId), with NoUser for undefined.
UserOf(cu, s) == IF s \in DOMAIN cu THEN cu[s] ELSE NoUser

\* The endTime and duration of a session that has neither yet.
NoTime == -1

NoSession == [callId |-> Undef, clientSocketId |-> Undef, staffSocketId |-> Undef,
              startTime |-> 0, status |-> Undef, videoCallRequest |-> Undef,
              endTime |-> NoTime, duration |-> NoTime]

\* activeCalls.get(callId), with NoSession for undefined.
SessionOf(calls, callId) ==
  IF CallHas(calls, callId) THEN CallGet(calls, callId) ELSE NoSession

\* ------------------------------------------------------ video-call-request
\* The payloads clients send: by short code, by part of the name, by email in
\* another letter case, and one that names nobody.
ByShortCode == [staffId |-> "ACS", staffName |-> Undef, staffEmail |-> Undef]

VideoCallTargets ==
  { ByShortCode,
    [staffId |-> Undef, staffName |-> "Anitha", staffEmail |-> Undef],
    [staffId |-> Undef, staffName |-> Undef, staffEmail |-> "LDN@College.edu"],
    [staffId |-> "XYZ", staffName |-> "Nobody", staffEmail |-> Undef] }

\* The staffProfiles.find predicate of 'video-call-request'.
VideoCallMatch(p, d) ==
  \/ Truthy(d.staffEmail) /\ Truthy(p.email)
       /\ ToLowerCase(p.email) = ToLowerCase(d.staffEmail)
  \/ Truthy(d.staffName) /\ ToLowerCase(p.name) = ToLowerCase(d.staffName)
  \/ Truthy(d.staffName) /\ Includes(ToLowerCase(p.name), ToLowerCase(d.staffName))
  \/ Truthy(d.staffName) /\ Truthy(p.shortName)
       /\ ToLowerCase(p.shortName) = ToLowerCase(d.staffName)
  \/ Truthy(d.staffId) /\ Truthy(p.shortName) /\ p.shortName = d.staffId

VideoCallProfile(d) == Find(staffProfiles, LAMBDA p : VideoCallMatch(p, d))

\* socket.on('video-call-request'): resolve the staff member, store the request
\* as pending, push it to the staff socket when there is one.
VideoCallRequest(s, d, clientSocketId) ==
  LET profile == VideoCallProfile(d)
      staffId == profile.shortName
      staffSocketId == MapGet(staffSessions, staffId)
      requestId == VcrId(nVcr + 1)
      request == [requestId |-> requestId, staffId |-> staffId,
                  clientSocketId |-> clientSocketId, status |-> "pending",
                  accepted |-> FALSE]
  IN /\ s \in connected
     /\ IF profile = NoProfile \/ ~Truthy(staffId)
        THEN /\ UNCHANGED << Registries, nVcr, requester >>
             /\ Record(connected, << Emit("socket", s, "video-call-error", << >>, Undef) >>,
                       "video-call-request", s, << >>, {})
        ELSE /\ nVcr < MaxRequests
             /\ nVcr' = nVcr + 1
             /\ videoCallRequests' = MapSet(videoCallRequests, requestId, request)
             /\ pendingVideoCalls' =
                  MapSet(pendingVideoCalls, staffId,
                         Append(GetList(pendingVideoCalls, staffId), requestId))
             /\ requester' = MapSet(requester, requestId, s)
             /\ UNCHANGED << presenceVars, activeCalls, pendingStaffCalls,
                             incomingCallRequests, convVars >>
             /\ Record(connected,
                       (IF Truthy(staffSocketId)
                        THEN << Emit("room", staffSocketId, "video-call-request",
                                     << requestId >>, Undef) >>
                        ELSE << >>)
                       \o << Emit("socket", s, "video-call-request-sent",
                                  << requestId,
                                     IF Truthy(staffSocketId) THEN "sent" ELSE "queued" >>,
                                  Undef) >>,
                       "video-call-request", s, << requestId >>,
                       {IF Truthy(staffSocketId) THEN << "online" >> ELSE << "offline" >>,
                        << "target", d.staffId, d.staffName, d.staffEmail >>})
     /\ UNCHANGED << netVars, envVars, staffCallLog, nCall, nReq, exiting, procs >>

NoRequest == [requestId |-> Undef, staffId |-> Undef, clientSocketId |-> Undef,
              status |-> Undef, accepted |-> FALSE]

VideoRequestOf(m, requestId) == IF requestId \in DOMAIN m THEN m[requestId] ELSE NoRequest

\* socket.on('video-call-response'): the staff's accept or reject of a request.
VideoCallResponse(s, requestId, accepted, staffId) ==
  LET videoCallRequest == VideoRequestOf(videoCallRequests, requestId)
      client == videoCallRequest.clientSocketId
      callId == CallId(nCall + 1)
      updatedRequests ==
        Filter(GetList(pendingVideoCalls, staffId), LAMBDA r : r # requestId)
  IN /\ s \in connected
     /\ IF videoCallRequest = NoRequest
        THEN /\ UNCHANGED << Registries, nCall >>
             /\ Record(connected, << Emit("socket", s, "video-call-error", << >>, Undef) >>,
                       "video-call-response", s, << requestId >>, {})
        ELSE /\ IF accepted
                THEN /\ nCall < MaxCalls
                     /\ nCall' = nCall + 1
                     /\ videoCallRequests' =
                          MapSet(videoCallRequests, requestId,
                                 [videoCallRequest EXCEPT !.status = "accepted",
                                                          !.accepted = TRUE])
                     /\ activeCalls' =
                          CallSet(activeCalls,
                                  [callId |-> callId, clientSocketId |-> client,
                                   staffSocketId |-> s, startTime |-> now,
                                   status |-> "connecting",
                                   videoCallRequest |-> requestId,
                                   endTime |-> NoTime, duration |-> NoTime])
                ELSE /\ nCall' = nCall
                     /\ videoCallRequests' =
                          MapSet(videoCallRequests, requestId,
                                 [videoCallRequest EXCEPT !.status = "rejected"])
                     /\ activeCalls' = activeCalls
             /\ pendingVideoCalls' = MapSet(pendingVideoCalls, staffId, updatedRequests)
             /\ UNCHANGED << presenceVars, pendingStaffCalls, incomingCallRequests,
                             convVars >>
             /\ Record(connected,
                       IF accepted
                       THEN << Emit("room", client, "video-call-accepted", << requestId >>, Undef),
                               Emit("socket", s, "video-call-accepted-staff", << requestId >>, Undef),
                               Emit("room", client, "call-started", << callId >>, Undef),
                               Emit("socket", s, "call-started", << callId >>, Undef) >>
                       ELSE << Emit("room", client, "video-call-rejected", << requestId >>, Undef),
                               Emit("room", client, "clara-ai-reset", << >>, Undef) >>,
                       "video-call-response", s, << requestId >>,
                       {<< videoCallRequest.status >>,
                        IF accepted THEN << "accept" >> ELSE << "reject" >>})
     /\ UNCHANGED << netVars, envVars, staffCallLog, nVcr, nReq, exiting, requester, procs >>

\* --------------------------------------------------------------- signaling
SignalKinds == {"offer", "answer", "ice-candidate"}

\* The callIds a client may name: those handed out, and one that never was.
CallIdsSeen == {CallId(i) : i \in 0..nCall}

\* A relay that keeps signalling state: a forwarded message is noted in the
\* session's status.
RelayNotesSession(kind, s, callId) ==
  LET callSession == SessionOf(activeCalls, callId)
      targetSocketId == IF s = callSession.clientSocketId
                        THEN callSession.staffSocketId
                        ELSE callSession.clientSocketId
      forwards == /\ callSession # NoSession
                  /\ (s = callSession.clientSocketId \/ s = callSession.staffSocketId)
  IN /\ s \in connected
     /\ UNCHANGED << netVars, envVars, presenceVars, requestVars, convVars, staffCallLog,
                     nCall, exiting, requester, procs >>
     /\ activeCalls' = IF forwards
                       THEN CallSet(activeCalls, [callSession EXCEPT !.status = kind])
                       ELSE activeCalls
     /\ Record(connected,
               IF forwards THEN << Emit("room", targetSocketId, kind, << callId >>, s) >>
               ELSE << Emit("socket", s, "signaling-error", << callId >>, Undef) >>,
               kind, s, << callId >>,
               IF forwards THEN {<< "forwarded", targetSocketId >>} ELSE {<< "invalid" >>})

\* socket.on('offer' / 'answer' / 'ice-candidate'): forward to the session's
\* other participant when the sender is one of the two.
Relay(kind, s, callId) ==
  LET callSession == SessionOf(activeCalls, callId)
      targetSocketId == IF s = callSession.clientSocketId
                        THEN callSession.staffSocketId
                        ELSE callSession.clientSocketId
  IN /\ s \in connected
     /\ UNCHANGED << netVars, envVars, Registries, staffCallLog, nCall, nVcr, nReq,
                     exiting, requester, procs >>
     /\ IF callSession = NoSession
        THEN Record(connected, << Emit("socket", s, "signaling-error", << callId >>, Undef) >>,
                    kind, s, << callId >>, {<< "invalid" >>})
        ELSE IF s # callSession.clientSocketId /\ s # callSession.staffSocketId
        THEN Record(connected, << Emit("socket", s, "signaling-error", << callId >>, Undef) >>,
                    kind, s, << callId >>, {<< "unauthorized" >>})
        ELSE Record(connected, << Emit("room", targetSocketId, kind, << callId >>, s) >>,
                    kind, s, << callId >>, {<< "forwarded", targetSocketId >>})

\* The explicit room joins made so far.
Joins == UNION {{<< s, r >> : r \in rooms[s]} : s \in Sockets}

\* The room names a client may pass to join_call: a callId, or any other string,
\* such as the id of a socket.
JoinNames == CallIdsSeen \cup connected \cup closed

\* socket.on('join_call'): the socket joins the room named by the payload.
JoinCall(s, callId) ==
  /\ s \in connected
  /\ Cardinality({j \in Joins : j[2] \in JoinNames}) < MaxJoins
  /\ rooms' = [rooms EXCEPT ![s] = @ \cup {callId}]
  /\ UNCHANGED << connected, closed, envVars, Registries, staffCallLog, nCall, nVcr,
                  nReq, exiting, requester, procs >>
  /\ Record(connected, << >>, "join_call", s, << callId >>, {})

RoomKinds == {"call_offer", "call_answer", "ice_candidate"}

\* socket.on('call_offer' / 'call_answer' / 'ice_candidate'), each registered
\* twice: the first handler forwards to the room, or to everyone when the
\* payload names no room; the second forwards to the room.
RoomRelay(kind, s, targetRoom) ==
  /\ s \in connected
  /\ UNCHANGED << netVars, envVars, Registries, staffCallLog, nCall, nVcr, nReq,
                  exiting, requester, procs >>
  /\ Record(connected,
            << IF Truthy(targetRoom)
               THEN Emit("except", targetRoom, kind, << targetRoom >>, s)
               ELSE Emit("all", Undef, kind, << targetRoom >>, s),
               Emit("except", targetRoom, kind, << targetRoom >>, s) >>,
            kind, s, << targetRoom >>, {})

\* socket.on('request_offer'): forward to the room, nothing without one.
RequestOffer(s, targetRoom) ==
  /\ s \in connected
  /\ UNCHANGED << netVars, envVars, Registries, staffCallLog, nCall, nVcr, nReq,
                  exiting, requester, procs >>
  /\ Record(connected,
            IF Truthy(targetRoom)
            THEN << Emit("except", targetRoom, "request_offer", << targetRoom >>, s) >>
            ELSE << >>,
            "request_offer", s, << targetRoom >>, {})

\* -------------------------------------------------------------- disconnect
\* A handler suspended at an await: the event, where it waits, its socket and
\* the locals it still holds.
Proc(kind, pc, sock) ==
  [kind |-> kind, pc |-> pc, sock |-> sock, user |-> NoUser, callId |-> Undef,
   staffKey |-> Undef, staffSocketId |-> Undef, staffEmail |-> Undef,
   purpose |-> Undef, duration |-> 0, matched |-> FALSE, client |-> Undef,
   nth |-> 0]

\* The staffProfiles.find of 'staff-login' and 'disconnect': the profile with the
\* user's email or name.
ProfileOfUser(user) ==
  Find(staffProfiles,
       LAMBDA p : \/ Truthy(p.email) /\ Truthy(user.email)
                       /\ ToLowerCase(p.email) = ToLowerCase(user.email)
                  \/ Truthy(p.name) /\ Truthy(user.name)
                       /\ ToLowerCase(p.name) = ToLowerCase(user.name))

\* 'staff-list-updated' reads connectedUsers.get(staffSessions.get(id)).name for
\* every key: a TypeError when a key's socket has no user.
StaffListThrows(ss, cu) == \E k \in DOMAIN ss : ss[k] \notin DOMAIN cu

\* disconnect, staff branch up to `await user.save()`: the presence bindings go.
DisconnectPresence(user, ss, ses) ==
  LET isStaff == user.role = "staff"
      profile == ProfileOfUser(user)
      ss1 == IF isStaff THEN MapDelete(ss, user.id) ELSE ss
      ss2 == IF isStaff /\ profile # NoProfile /\ Truthy(profile.shortName)
             THEN MapDelete(ss1, profile.shortName) ELSE ss1
      hasEmail == isStaff /\ Truthy(user.email)
  IN [ss |-> ss2,
      ses |-> IF hasEmail THEN MapDelete(ses, user.email) ELSE ses,
      emits |-> IF hasEmail
                THEN << Emit("all", Undef, "staff_status_update",
                             << user.email, "offline" >>, Undef) >>
                ELSE << >>]

\* disconnect, the end: waitingCalls.delete and the loop over activeCalls, which
\* ends the first session of the socket and then breaks.
DisconnectCleanup(s, wc, ac) ==
  LET hasCall == MapHas(wc, s)
      bound(i) == ac[i].clientSocketId = s \/ ac[i].staffSocketId = s
      hit == \E i \in DOMAIN ac : bound(i)
      i0 == CHOOSE i \in DOMAIN ac : bound(i) /\ \A j \in 1..(i - 1) : ~bound(j)
      otherSocketId == IF ac[i0].clientSocketId = s THEN ac[i0].staffSocketId
                       ELSE ac[i0].clientSocketId
  IN [wc |-> IF hasCall THEN MapDelete(wc, s) ELSE wc,
      ac |-> IF hit THEN CallDelete(ac, ac[i0].callId) ELSE ac,
      emits |-> (IF hasCall
                 THEN << Emit("all", Undef, "waiting-calls-updated", << >>, Undef) >>
                 ELSE << >>)
                \o (IF hit /\ Truthy(otherSocketId)
                    THEN << Emit("room", otherSocketId, "call-ended",
                                 << ac[i0].callId >>, "System") >>
                    ELSE << >>)]

\* disconnect from after `await user.save()` on: the staff list, the user entry,
\* then the cleanup, unless `await call.save()` suspends the handler before it.
DisconnectRest(s, user, ss, cu, cs, wc, ac, db) ==
  LET known == user # NoUser
      isStaff == user.role = "staff"
      throws == known /\ isStaff /\ StaffListThrows(ss, cu)
      call == wc[s]
      awaitCall == MapHas(wc, s) /\ db /\ call.db
      wc1 == IF awaitCall THEN MapSet(wc, s, [call EXCEPT !.status = "rejected"]) ELSE wc
      tail == DisconnectCleanup(s, wc1, ac)
      listEmit == IF known /\ isStaff
                  THEN << Emit("all", Undef, "staff-list-updated", << >>, Undef) >>
                  ELSE << >>
  IN IF throws
     THEN [throws |-> TRUE, awaitCall |-> FALSE, cu |-> cu, cs |-> cs, wc |-> wc,
           ac |-> ac, emits |-> << >>]
     ELSE [throws |-> FALSE, awaitCall |-> awaitCall,
           cu |-> IF known THEN MapDelete(cu, s) ELSE cu,
           cs |-> IF known /\ ~isStaff THEN MapDelete(cs, user.id) ELSE cs,
           wc |-> IF awaitCall THEN wc1 ELSE tail.wc,
           ac |-> IF awaitCall THEN ac ELSE tail.ac,
           emits |-> listEmit \o (IF awaitCall THEN << >> ELSE tail.emits)]

\* The sessions a socket is bound to, each with its other participant.
BoundTo(s, ac) ==
  {<< ac[i].callId,
      IF ac[i].clientSocketId = s THEN ac[i].staffSocketId ELSE ac[i].clientSocketId >> :
     i \in {j \in DOMAIN ac : ac[j].clientSocketId = s \/ ac[j].staffSocketId = s}}

\* socket.on('disconnect').
Disconnect(s) ==
  LET user == UserOf(connectedUsers, s)
      pres == DisconnectPresence(user, staffSessions, staffEmailSessions)
      awaitSave == user.role = "staff" /\ dbConnected /\ user.db
      rest == DisconnectRest(s, user, pres.ss, connectedUsers, clientSessions,
                             waitingCalls, activeCalls, dbConnected)
  IN /\ s \in connected
     /\ connected' = connected \ {s}
     /\ closed' = closed \cup {s}
     /\ rooms' = [rooms EXCEPT ![s] = {}]
     /\ staffSessions' = pres.ss
     /\ staffEmailSessions' = pres.ses
     /\ UNCHANGED << envVars, requestVars, staffCallLog, nCall, requester, waitingDocs >>
     /\ IF awaitSave
        THEN /\ procs' = procs \cup {[Proc("disconnect", "user.save", s) EXCEPT !.user = user]}
             /\ UNCHANGED << connectedUsers, clientSessions, waitingCalls, activeCalls, exiting >>
             /\ Record(connected', pres.emits, "disconnect", s, << >>, BoundTo(s, activeCalls))
        ELSE /\ connectedUsers' = rest.cu
             /\ clientSessions' = rest.cs
             /\ waitingCalls' = rest.wc
             /\ activeCalls' = rest.ac
             /\ exiting' = (exiting \/ rest.throws)
             /\ procs' = IF rest.awaitCall
                         THEN procs \cup {[Proc("disconnect", "call.save", s) EXCEPT !.user = user]}
                         ELSE procs
             /\ Record(connected', pres.emits \o rest.emits, "disconnect", s, << >>,
                       BoundTo(s, activeCalls))

\* The disconnect handler resumes after `await user.save()` or `await call.save()`.
DisconnectResume(p) ==
  LET rest == DisconnectRest(p.sock, p.user, staffSessions, connectedUsers,
                             clientSessions, waitingCalls, activeCalls, dbConnected)
      tail == DisconnectCleanup(p.sock, waitingCalls, activeCalls)
  IN /\ p \in procs
     /\ p.kind = "disconnect"
     /\ UNCHANGED << netVars, envVars, staffSessions, staffEmailSessions, requestVars,
                     staffCallLog, nCall, requester >>
     /\ IF p.pc = "user.save"
        THEN /\ connectedUsers' = rest.cu
             /\ clientSessions' = rest.cs
             /\ waitingCalls' = rest.wc
             /\ activeCalls' = rest.ac
             /\ exiting' = (exiting \/ rest.throws)
             /\ UNCHANGED waitingDocs
             /\ procs' = (procs \ {p}) \cup
                         (IF rest.awaitCall THEN {[p EXCEPT !.pc = "call.save"]} ELSE {})
             /\ Record(connected, rest.emits, "disconnect-resume", p.sock, << >>,
                       BoundTo(p.sock, activeCalls))
        ELSE /\ waitingCalls' = tail.wc
             /\ waitingDocs' = IF MapHas(waitingCalls, p.sock)
                               THEN MapDelete(waitingDocs, waitingCalls[p.sock].id)
                               ELSE waitingDocs
             /\ activeCalls' = tail.ac
             /\ procs' = procs \ {p}
             /\ UNCHANGED << connectedUsers, clientSessions, exiting >>
             /\ Record(connected, tail.emits, "disconnect-resume", p.sock, << >>,
                       BoundTo(p.sock, activeCalls))

\* ----------------------------------------------------------------- presence
\* The users 'staff-login' can produce: the database document, the directory
\* fallback (whose _id is the short code), and the demo account.
ProfileUser(p) ==
  [role |-> "staff", id |-> p.shortName, email |-> p.email, name |-> p.name, db |-> FALSE]
DbUser(p) ==
  [role |-> "staff", id |-> "db_" \o p.shortName, email |-> p.email, name |-> p.name,
   db |-> TRUE]
DemoUser ==
  [role |-> "staff", id |-> "staff_demo", email |-> "staff@demo.com",
   name |-> "Demo Staff", db |-> FALSE]

Profiles == {staffProfiles[i] : i \in DOMAIN staffProfiles}

\* What the three credential checks of 'staff-login' can end with, NoUser being
\* a failed login.
LoginUsers(db) ==
  {ProfileUser(p) : p \in Profiles} \cup {NoUser, DemoUser}
    \cup (IF db THEN {DbUser(p) : p \in Profiles} ELSE {})

\* A registration in which the first login wins: a key that is already bound
\* keeps its socket.
LoginRegisterFirstWins(s, user, cu, ss, ses) ==
  LET profile == ProfileOfUser(user)
      keep(m, k) == IF MapHas(m, k) THEN m ELSE MapSet(m, k, s)
      ss1 == keep(ss, user.id)
  IN [cu |-> MapSet(cu, s, user),
      ss |-> IF profile # NoProfile /\ Truthy(profile.shortName)
             THEN keep(ss1, profile.shortName) ELSE ss1,
      ses |-> IF Truthy(user.email) THEN keep(ses, user.email) ELSE ses,
      join |-> IF Truthy(user.email) THEN {user.email} ELSE {},
      emits |-> (IF Truthy(user.email)
                 THEN << Emit("all", Undef, "staff_status_update",
                              << user.email, "online" >>, Undef) >>
                 ELSE << >>)
                \o << Emit("socket", s, "staff-login-success", << user.id >>, Undef) >>]

\* staff-login from "Store user connection" to the `await` of the n8n call.
LoginRegister(s, user, cu, ss, ses) ==
  LET profile == ProfileOfUser(user)
      ss1 == MapSet(ss, user.id, s)
  IN [cu |-> MapSet(cu, s, user),
      ss |-> IF profile # NoProfile /\ Truthy(profile.shortName)
             THEN MapSet(ss1, profile.shortName, s) ELSE ss1,
      ses |-> IF Truthy(user.email) THEN MapSet(ses, user.email, s) ELSE ses,
      join |-> IF Truthy(user.email) THEN {user.email} ELSE {},
      emits |-> (IF Truthy(user.email)
                 THEN << Emit("all", Undef, "staff_status_update",
                              << user.email, "online" >>, Undef) >>
                 ELSE << >>)
                \o << Emit("socket", s, "staff-login-success", << user.id >>, Undef) >>]

\* One 'new-call-request' per queued call, in queue order.
QueuedEmits(s, queuedCalls) ==
  [i \in DOMAIN queuedCalls |-> Emit("socket", s, "new-call-request", queuedCalls[i], Undef)]

\* staff-login after the awaits without its pendingStaffCalls.set(id, []): the
\* queued calls are emitted and stay queued.
LoginDeliverKeepsQueue(s, user, cu, ss, pvc, psc) ==
  LET pendingRequests == GetList(pvc, user.id)
      queuedCalls == GetList(psc, user.id)
  IN [psc |-> psc,
      emits |-> << Emit("socket", s, "waiting-calls", << >>, Undef) >>
                \o (IF Len(pendingRequests) > 0
                    THEN << Emit("socket", s, "pending-video-calls", pendingRequests, Undef) >>
                    ELSE << >>)
                \o QueuedEmits(s, queuedCalls)
                \o (IF StaffListThrows(ss, cu)
                    THEN << Emit("socket", s, "login-error", << >>, Undef) >>
                    ELSE << Emit("all", Undef, "staff-list-updated", << >>, Undef) >>)]

\* staff-login after the awaits: the waiting count, the pending video calls, the
\* queued calls, the staff list (whose TypeError the handler's catch turns into
\* 'login-error').
LoginDeliver(s, user, cu, ss, pvc, psc) ==
  LET pendingRequests == GetList(pvc, user.id)
      queuedCalls == GetList(psc, user.id)
  IN [psc |-> IF Len(queuedCalls) > 0 THEN MapSet(psc, user.id, << >>) ELSE psc,
      emits |-> << Emit("socket", s, "waiting-calls", << >>, Undef) >>
                \o (IF Len(pendingRequests) > 0
                    THEN << Emit("socket", s, "pending-video-calls", pendingRequests, Undef) >>
                    ELSE << >>)
                \o QueuedEmits(s, queuedCalls)
                \o (IF StaffListThrows(ss, cu)
                    THEN << Emit("socket", s, "login-error", << >>, Undef) >>
                    ELSE << Emit("all", Undef, "staff-list-updated", << >>, Undef) >>)]

\* socket.on('staff-login'): with the database up the handler first awaits the
\* user lookup; without it, it registers the user at once and awaits n8n.
StaffLogin(s, user) ==
  LET reg == LoginRegister(s, user, connectedUsers, staffSessions, staffEmailSessions)
  IN /\ s \in connected
     /\ user \in LoginUsers(dbConnected)
     /\ Cardinality(procs) < MaxProcs
     /\ UNCHANGED << connected, closed, envVars, activeCalls, requestVars, convVars,
                     staffCallLog, nCall, exiting, requester >>
     /\ IF dbConnected
        THEN /\ procs' = procs \cup {[Proc("staff-login", "lookup", s) EXCEPT !.user = user]}
             /\ UNCHANGED << rooms, presenceVars >>
             /\ Record(connected, << >>, "staff-login", s, << user.id >>, {})
        ELSE IF user = NoUser
        THEN /\ UNCHANGED << rooms, presenceVars, procs >>
             /\ Record(connected, << Emit("socket", s, "login-error", << >>, Undef) >>,
                       "staff-login", s, << user.id >>, {})
        ELSE /\ connectedUsers' = reg.cu
             /\ staffSessions' = reg.ss
             /\ staffEmailSessions' = reg.ses
             /\ rooms' = [rooms EXCEPT ![s] = @ \cup reg.join]
             /\ procs' = procs \cup {[Proc("staff-login", "n8n", s) EXCEPT !.user = user]}
             /\ Record(connected, reg.emits, "staff-login", s, << user.id >>, {<< "registered" >>})

\* The login handler resumes: after the lookup it registers the user (the demo
\* account only when the database is down by then); after n8n it delivers.
StaffLoginResume(p) ==
  LET s == p.sock
      user == IF p.user = DemoUser /\ dbConnected THEN NoUser ELSE p.user
      reg == LoginRegister(s, user, connectedUsers, staffSessions, staffEmailSessions)
      del == LoginDeliver(s, p.user, connectedUsers, staffSessions, pendingVideoCalls,
                          pendingStaffCalls)
  IN /\ p \in procs
     /\ p.kind = "staff-login"
     /\ UNCHANGED << connected, closed, envVars, activeCalls, videoCallRequests,
                     pendingVideoCalls, incomingCallRequests, nVcr, nReq, convVars,
                     staffCallLog, nCall, exiting, requester >>
     /\ IF p.pc = "lookup"
        THEN IF user = NoUser
             THEN /\ procs' = procs \ {p}
                  /\ UNCHANGED << rooms, presenceVars, pendingStaffCalls >>
                  /\ Record(connected, << Emit("socket", s, "login-error", << >>, Undef) >>,
                            "staff-login-register", s, << user.id >>, {})
             ELSE /\ connectedUsers' = reg.cu
                  /\ staffSessions' = reg.ss
                  /\ staffEmailSessions' = reg.ses
                  /\ rooms' = [rooms EXCEPT ![s] = IF s \in connected THEN @ \cup reg.join ELSE @]
                  /\ procs' = (procs \ {p}) \cup {[p EXCEPT !.pc = "n8n"]}
                  /\ UNCHANGED pendingStaffCalls
                  /\ Record(connected, reg.emits, "staff-login-register", s, << user.id >>, 
                            {<< "registered" >>})
        ELSE /\ pendingStaffCalls' = del.psc
             /\ procs' = procs \ {p}
             /\ UNCHANGED << rooms, presenceVars >>
             /\ Record(connected, del.emits, "staff-login-deliver", s, << p.user.id >>, {})

\* socket.on('restore-session'): re-register the profile with the payload's email.
RestoreSession(s, email) ==
  LET profile == Find(staffProfiles,
                      LAMBDA q : ToLowerCase(q.email) = ToLowerCase(email))
      user == ProfileUser(profile)
  IN /\ s \in connected
     /\ UNCHANGED << connected, closed, envVars, activeCalls, requestVars, convVars,
                     staffCallLog, nCall, exiting, requester, procs >>
     /\ IF ~Truthy(email) \/ profile = NoProfile
        THEN /\ UNCHANGED << rooms, presenceVars >>
             /\ Record(connected, << >>, "restore-session", s, << email >>, {})
        ELSE /\ connectedUsers' = MapSet(connectedUsers, s, user)
             /\ staffSessions' = MapSet(MapSet(staffSessions, user.id, s), profile.shortName, s)
             /\ staffEmailSessions' = MapSet(staffEmailSessions, user.email, s)
             /\ rooms' = [rooms EXCEPT ![s] = @ \cup {user.email}]
             /\ Record(connected,
                       << Emit("all", Undef, "staff_status_update",
                               << user.email, "online" >>, Undef),
                          Emit("socket", s, "waiting-calls", << >>, Undef) >>,
                       "restore-session", s, << email >>, {})

\* socket.on('register-staff'): bind the email to the socket and join its room.
RegisterStaff(s, staffEmail) ==
  /\ s \in connected
  /\ staffEmailSessions' = MapSet(staffEmailSessions, staffEmail, s)
  /\ rooms' = [rooms EXCEPT ![s] = @ \cup {staffEmail}]
  /\ UNCHANGED << connected, closed, envVars, connectedUsers, staffSessions, activeCalls,
                  requestVars, convVars, staffCallLog, nCall, exiting, requester, procs >>
  /\ Record(connected, << Emit("socket", s, "staff-registered", << staffEmail >>, Undef) >>,
            "register-staff", s, << staffEmail >>, {})

ProfileEmails == {p.email : p \in Profiles}

\* ---------------------------------------------------------------- requests
Purposes == {"fees"}

\* What clients pass as a staff id: short codes, one in lower case, one unknown.
StaffIdInputs == {"ACS", "LDN", "acs", "XYZ"}

\* POST /api/staff/call-request: notify the online staff or queue the call.
HttpCallRequest(staffId, purpose) ==
  LET staffProfile == Find(staffProfiles, LAMBDA q : q.shortName = staffId)
      staffSocketId == MapGet(staffSessions, staffId)
      call == << CallId(nCall + 1), IF Truthy(purpose) THEN purpose ELSE "General inquiry" >>
  IN /\ UNCHANGED << netVars, envVars, presenceVars, activeCalls, videoCallRequests,
                     pendingVideoCalls, incomingCallRequests, nVcr, nReq, convVars,
                     staffCallLog, exiting, requester, procs >>
     /\ IF staffProfile = NoProfile
        THEN /\ UNCHANGED << pendingStaffCalls, nCall >>
             /\ Record(connected, << >>, "http-call-request", Undef, << staffId >>,
                       {<< "404" >>})
        ELSE /\ nCall < MaxCalls
             /\ nCall' = nCall + 1
             /\ IF Truthy(staffSocketId)
                THEN /\ UNCHANGED pendingStaffCalls
                     /\ Record(connected,
                               << Emit("room", staffSocketId, "incoming-call-request", call, Undef) >>,
                               "http-call-request", Undef, << staffId >>, {<< "sent" >>})
                ELSE /\ pendingStaffCalls' =
                          MapSet(pendingStaffCalls, staffId,
                                 Append(GetList(pendingStaffCalls, staffId), call))
                     /\ Record(connected, << >>, "http-call-request", Undef, << staffId >>,
                               {<< "queued" >>})

\* The _id of the staff document start-conversation finds or creates for the
\* candidate email: the document of the profile with that email, else a new one.
StaffDbUserId(selectedStaffId, staffUser, staffProfile) ==
  LET candidateEmail == IF Truthy(staffUser.email) THEN staffUser.email
                        ELSE IF Truthy(staffProfile.email) THEN staffProfile.email
                        ELSE selectedStaffId \o "@staff.local"
      owner == Find(staffProfiles, LAMBDA q : q.email = candidateEmail)
  IN IF owner # NoProfile THEN DbUser(owner).id ELSE "db_" \o selectedStaffId

\* socket.on('start-conversation') up to its first await: the staff socket is
\* read here and used after the awaits.
StartConversation(s, selectedStaffId, purpose) ==
  LET staffSocketId == MapGet(staffSessions, selectedStaffId)
      staffProfile == Find(staffProfiles,
                           LAMBDA q : ToLowerCase(q.shortName) = ToLowerCase(selectedStaffId))
      staffUser == IF Truthy(staffSocketId) THEN UserOf(connectedUsers, staffSocketId)
                   ELSE NoUser
      k == IF dbConnected THEN StaffDbUserId(selectedStaffId, staffUser, staffProfile)
           ELSE selectedStaffId
  IN /\ s \in connected
     /\ Cardinality(procs) < MaxProcs
     /\ UNCHANGED << netVars, envVars, Registries, staffCallLog, nCall, nVcr, nReq,
                     exiting, requester >>
     /\ IF ~Truthy(selectedStaffId)
        THEN /\ UNCHANGED procs
             /\ Record(connected, << Emit("socket", s, "conversation-error", << >>, Undef) >>,
                       "start-conversation", s, << selectedStaffId >>, {})
        ELSE /\ procs' = procs \cup
                  {[Proc("start-conversation", IF dbConnected THEN "db" ELSE "n8n", s)
                      EXCEPT !.staffKey = k, !.staffSocketId = staffSocketId,
                             !.purpose = purpose]}
             /\ Record(connected, << >>, "start-conversation", s, << selectedStaffId >>, {})

\* start-conversation after its awaits: the client becomes a user, the call is
\* pushed to the staff socket read at the start, or queued under the staff key.
StartConversationResume(p) ==
  LET s == p.sock
      db == p.pc = "db"
      user == [role |-> "client", id |-> (IF db THEN "dbc_" ELSE "demo_") \o s,
               email |-> Undef, name |-> "Client", db |-> db]
      callId == CallId(nCall + 1)
      call == << callId, p.purpose >>
      staffSocketId == p.staffSocketId
  IN /\ p \in procs
     /\ p.kind = "start-conversation"
     /\ nCall < MaxCalls
     /\ nCall' = nCall + 1
     /\ procs' = procs \ {p}
     /\ connectedUsers' = MapSet(connectedUsers, s, user)
     /\ clientSessions' = MapSet(clientSessions, user.id, s)
     /\ waitingCalls' = IF db
                        THEN MapSet(waitingCalls, s,
                                    [id |-> callId, staffId |-> p.staffKey,
                                     status |-> "waiting", db |-> TRUE])
                        ELSE waitingCalls
     /\ waitingDocs' = IF db THEN MapSet(waitingDocs, callId, p.staffKey) ELSE waitingDocs
     /\ pendingStaffCalls' = IF Truthy(staffSocketId) THEN pendingStaffCalls
                             ELSE MapSet(pendingStaffCalls, p.staffKey,
                                         Append(GetList(pendingStaffCalls, p.staffKey), call))
     /\ requester' = MapSet(requester, callId, s)
     /\ UNCHANGED << netVars, envVars, staffSessions, staffEmailSessions, activeCalls,
                     videoCallRequests, pendingVideoCalls, incomingCallRequests, nVcr,
                     nReq, staffCallLog, exiting >>
     /\ Record(connected,
               (IF Truthy(staffSocketId)
                THEN << Emit("room", staffSocketId, "new-call-request", call, Undef) >>
                ELSE << >>)
               \o << Emit("socket", s, "conversation-started", << callId >>, Undef) >>,
               "start-conversation-resume", s, << callId >>,
               {IF Truthy(staffSocketId) THEN << "sent" >> ELSE << "queued", p.staffKey >>})

\* What clients pass as a staff email: the directory's, and one nobody has.
StaffEmailInputs == ProfileEmails \cup {"nobody@college.edu"}

NoIncoming == [requestId |-> Undef, clientSocketId |-> Undef, staffEmail |-> Undef]

IncomingOf(m, requestId) == IF requestId \in DOMAIN m THEN m[requestId] ELSE NoIncoming

\* socket.on('call-request'): store the request, notify the email room and the
\* socket registered for the email.
CallRequest(s, staffEmail) ==
  LET requestId == ReqId(nReq + 1)
      staffSocketId == MapGet(staffEmailSessions, staffEmail)
  IN /\ s \in connected
     /\ nReq < MaxRequests
     /\ nReq' = nReq + 1
     /\ incomingCallRequests' =
          MapSet(incomingCallRequests, requestId,
                 [requestId |-> requestId, clientSocketId |-> s, staffEmail |-> staffEmail])
     /\ requester' = MapSet(requester, requestId, s)
     /\ UNCHANGED << netVars, envVars, presenceVars, activeCalls, videoCallRequests,
                     pendingVideoCalls, pendingStaffCalls, nVcr, convVars, staffCallLog,
                     nCall, exiting, procs >>
     /\ Record(connected,
               << Emit("room", staffEmail, "incoming-call", << requestId >>, Undef) >>
               \o (IF Truthy(staffSocketId)
                   THEN << Emit("room", staffSocketId, "incoming-call", << requestId >>, Undef) >>
                   ELSE << >>)
               \o << Emit("socket", s, "call-request-sent", << requestId >>, Undef) >>,
               "call-request", s, << requestId >>, {})

\* socket.on('call-accepted'): create the session for a stored request.
CallAccepted(s, requestId, staffEmail) ==
  LET pending == IncomingOf(incomingCallRequests, requestId)
      callId == CallId(nCall + 1)
  IN /\ s \in connected
     /\ UNCHANGED << netVars, envVars, presenceVars, videoCallRequests, pendingVideoCalls,
                     pendingStaffCalls, nVcr, nReq, convVars, staffCallLog, exiting,
                     requester, procs >>
     /\ IF pending = NoIncoming
        THEN /\ UNCHANGED << activeCalls, incomingCallRequests, nCall >>
             /\ Record(connected, << >>, "call-accepted", s, << requestId >>, {})
        ELSE /\ nCall < MaxCalls
             /\ nCall' = nCall + 1
             /\ activeCalls' =
                  CallSet(activeCalls,
                          [callId |-> callId, clientSocketId |-> pending.clientSocketId,
                           staffSocketId |-> s, startTime |-> now,
                           status |-> "in-progress", videoCallRequest |-> Undef,
                           endTime |-> NoTime, duration |-> NoTime])
             /\ incomingCallRequests' = MapDelete(incomingCallRequests, requestId)
             /\ Record(connected,
                       << Emit("room", pending.clientSocketId, "call-accepted", << callId >>, Undef),
                          Emit("room", s, "call-started", << callId >>, Undef) >>
                       \o (IF Truthy(staffEmail)
                           THEN << Emit("all", Undef, "staff_status_update",
                                        << staffEmail, "busy" >>, Undef) >>
                           ELSE << >>),
                       "call-accepted", s, << requestId >>, {<< "pending" >>})

\* 'call-rejected' without its incomingCallRequests.delete(requestId): the
\* client is told and the stored request stays.
CallRejectedKeeps(s, requestId) ==
  LET pending == IncomingOf(incomingCallRequests, requestId)
  IN /\ s \in connected
     /\ UNCHANGED << netVars, envVars, presenceVars, activeCalls, videoCallRequests,
                     pendingVideoCalls, pendingStaffCalls, incomingCallRequests, nVcr,
                     nReq, convVars, staffCallLog, nCall, exiting, requester, procs >>
     /\ Record(connected,
               IF pending = NoIncoming THEN << >>
               ELSE << Emit("room", pending.clientSocketId, "call-rejected",
                            << requestId >>, Undef) >>,
               "call-rejected", s, << requestId >>,
               IF pending = NoIncoming THEN {} ELSE {<< "pending" >>})

\* socket.on('call-rejected'): tell the client and drop the stored request.
CallRejected(s, requestId) ==
  LET pending == IncomingOf(incomingCallRequests, requestId)
  IN /\ s \in connected
     /\ UNCHANGED << netVars, envVars, presenceVars, activeCalls, videoCallRequests,
                     pendingVideoCalls, pendingStaffCalls, nVcr, nReq, convVars,
                     staffCallLog, nCall, exiting, requester, procs >>
     /\ IF pending = NoIncoming
        THEN /\ UNCHANGED incomingCallRequests
             /\ Record(connected, << >>, "call-rejected", s, << requestId >>, {})
        ELSE /\ incomingCallRequests' = MapDelete(incomingCallRequests, requestId)
             /\ Record(connected,
                       << Emit("room", pending.clientSocketId, "call-rejected",
                               << requestId >>, Undef) >>,
                       "call-rejected", s, << requestId >>, {<< "pending" >>})

\* ------------------------------------------------------------------ end-call
\* StaffCallLog documents matching the filter { callId, staffEmail }.
LogMatches(log, callId, staffEmail) ==
  {i \in DOMAIN log : log[i].callId = callId /\ log[i].staffEmail = staffEmail}

\* findOneAndUpdate(filter, {$setOnInsert, $set}, {upsert: true}) once the filter
\* has been evaluated: $set on one matching document, or an insert.  The schema
\* declares no unique index on the filter's fields.
LogUpsert(log, matched, callId, staffEmail, duration) ==
  IF matched /\ LogMatches(log, callId, staffEmail) # {}
  THEN LET i == CHOOSE j \in LogMatches(log, callId, staffEmail) :
                  \A k \in LogMatches(log, callId, staffEmail) : j <= k
       IN [log EXCEPT ![i].status = "completed", ![i].duration = duration]
  ELSE Append(log, [callId |-> callId, staffEmail |-> staffEmail, type |-> "incoming",
                    status |-> "completed", duration |-> duration])

\* Math.floor((new Date() - startTime) / 1000), the clock being in seconds.
DurationSec(startTime, t) == t - startTime

\* socket.on('end-call') up to its first await: both participants are told at
\* once; with the database up and a staff email the handler then awaits the log
\* write, and only after it deletes the session; else it deletes the session
\* and, with the database up, awaits the lookup of the call record.
EndCall(s, callId) ==
  LET user == UserOf(connectedUsers, s)
      callSession == SessionOf(activeCalls, callId)
      otherSocketId == IF s = callSession.clientSocketId THEN callSession.staffSocketId
                       ELSE callSession.clientSocketId
      staffInfo == UserOf(connectedUsers, callSession.staffSocketId)
      durationSec == DurationSec(callSession.startTime, now)
      awaitLog == dbConnected /\ Truthy(staffInfo.email)
      proc == [Proc("end-call", "StaffCallLog", s) EXCEPT
                 !.callId = callId, !.staffEmail = staffInfo.email,
                 !.duration = durationSec]
      update == [proc EXCEPT !.pc = "Call.findById"]
  IN /\ s \in connected
     /\ UNCHANGED << netVars, envVars, presenceVars, requestVars, convVars, staffCallLog,
                     nCall, exiting, requester >>
     /\ IF user = NoUser \/ callSession = NoSession
           \/ (s # callSession.clientSocketId /\ s # callSession.staffSocketId)
        THEN /\ UNCHANGED << activeCalls, procs >>
             /\ Record(connected, << Emit("socket", s, "call-error", << callId >>, Undef) >>,
                       "end-call", s, << callId >>,
                       {IF user = NoUser THEN << "unauthenticated" >>
                        ELSE IF callSession = NoSession THEN << "not-found" >>
                        ELSE << "unauthorized" >>})
        ELSE /\ IF awaitLog
                THEN /\ proc \notin procs
                     /\ Cardinality(procs) < MaxProcs
                     /\ procs' = procs \cup {proc}
                     /\ UNCHANGED activeCalls
                ELSE /\ activeCalls' = CallDelete(activeCalls, callId)
                     /\ IF dbConnected
                        THEN /\ update \notin procs
                             /\ Cardinality(procs) < MaxProcs
                             /\ procs' = procs \cup {update}
                        ELSE UNCHANGED procs
             /\ Record(connected,
                       << Emit("room", otherSocketId, "call-ended", << callId >>, s),
                          Emit("socket", s, "call-ended", << callId >>, s),
                          Emit("room", callSession.clientSocketId, "call-completed-qr",
                               << callId >>, Undef),
                          Emit("room", callSession.clientSocketId, "clara-ai-reset", << >>, Undef) >>,
                       "end-call", s, << callId >>,
                       {<< "ended", callSession.clientSocketId, callSession.staffSocketId >>})

\* The database evaluates the filter of a pending findOneAndUpdate.
StaffCallLogFind(p) ==
  /\ p \in procs
  /\ p.kind = "end-call"
  /\ p.pc = "StaffCallLog"
  /\ procs' = (procs \ {p}) \cup
              {[p EXCEPT !.pc = "StaffCallLog.write",
                         !.matched = (LogMatches(staffCallLog, p.callId, p.staffEmail) # {})]}
  /\ UNCHANGED << netVars, envVars, Registries, staffCallLog, nCall, nVcr, nReq, exiting,
                  requester >>
  /\ Record(connected, << >>, "db-find", p.sock, << p.callId >>, {})

\* Where 'end-call' goes after activeCalls.delete(callId): to the await of
\* Call.findById with the database up, to its end without.
AfterDelete(p, db) == IF db THEN {[p EXCEPT !.pc = "Call.findById"]} ELSE {}

\* The log write fails and nothing catches it before the handler's outer catch:
\* the session stays and the sender gets 'call-error'.
EndCallLogThrows(p, fails) ==
  /\ p \in procs
  /\ p.kind = "end-call"
  /\ p.pc = "StaffCallLog.write"
  /\ staffCallLog' = IF fails THEN staffCallLog
                     ELSE LogUpsert(staffCallLog, p.matched, p.callId, p.staffEmail, p.duration)
  /\ procs' = (procs \ {p}) \cup (IF fails THEN {} ELSE {[p EXCEPT !.pc = "perStaffLog"]})
  /\ UNCHANGED << netVars, envVars, presenceVars, activeCalls, requestVars, convVars,
                  nCall, exiting, requester >>
  /\ Record(connected,
            IF fails THEN << Emit("socket", p.sock, "call-error", << p.callId >>, Undef) >>
            ELSE << >>,
            "end-call-logged", p.sock, << p.callId >>,
            {IF fails THEN << "failed" >> ELSE << "written" >>})

\* The log write completes, or fails, and 'end-call' resumes: a failure is
\* caught and logged, and the handler goes straight to deleting the session;
\* otherwise it awaits the per-staff log.
EndCallLogged(p, fails) ==
  /\ p \in procs
  /\ p.kind = "end-call"
  /\ p.pc = "StaffCallLog.write"
  /\ staffCallLog' = IF fails THEN staffCallLog
                     ELSE LogUpsert(staffCallLog, p.matched, p.callId, p.staffEmail, p.duration)
  /\ procs' = (procs \ {p}) \cup (IF fails THEN AfterDelete(p, dbConnected)
                                  ELSE {[p EXCEPT !.pc = "perStaffLog"]})
  /\ activeCalls' = IF fails THEN CallDelete(activeCalls, p.callId) ELSE activeCalls
  /\ UNCHANGED << netVars, envVars, presenceVars, requestVars, convVars, nCall, exiting,
                  requester >>
  /\ Record(connected, << >>, "end-call-logged", p.sock, << p.callId >>,
            {IF fails THEN << "failed" >> ELSE << "written" >>})

\* 'end-call' resumes after the per-staff log write, whose failure is swallowed:
\* activeCalls.delete(callId).
EndCallFinish(p) ==
  /\ p \in procs
  /\ p.kind = "end-call"
  /\ p.pc = "perStaffLog"
  /\ procs' = (procs \ {p}) \cup AfterDelete(p, dbConnected)
  /\ activeCalls' = CallDelete(activeCalls, p.callId)
  /\ UNCHANGED << netVars, envVars, presenceVars, requestVars, convVars, staffCallLog,
                  nCall, exiting, requester >>
  /\ Record(connected, << >>, "end-call-finish", p.sock, << p.callId >>, {})

\* 'end-call' resumes after the lookup and update of the call record, or after
\* their failure, which is caught and logged: the handler ends.
EndCallUpdated(p, fails) ==
  /\ p \in procs
  /\ p.kind = "end-call"
  /\ p.pc = "Call.findById"
  /\ procs' = procs \ {p}
  /\ UNCHANGED << netVars, envVars, Registries, staffCallLog, nCall, nVcr, nReq, exiting,
                  requester >>
  /\ Record(connected, << >>, "end-call-updated", p.sock, << p.callId >>,
            {IF fails THEN << "failed" >> ELSE << "updated" >>})

\* socket.on('call-ended-by-client' / 'call-ended-by-staff'): tell the other
\* side of the session and delete it.
CallEndedBy(who, s, callId) ==
  LET callSession == SessionOf(activeCalls, callId)
      target == IF who = "call-ended-by-client" THEN callSession.staffSocketId
                ELSE callSession.clientSocketId
  IN /\ s \in connected
     /\ UNCHANGED << netVars, envVars, presenceVars, requestVars, convVars, staffCallLog,
                     nCall, exiting, requester, procs >>
     /\ IF callSession = NoSession
        THEN /\ UNCHANGED activeCalls
             /\ Record(connected, << >>, who, s, << callId >>, {})
        ELSE /\ activeCalls' = CallDelete(activeCalls, callId)
             /\ Record(connected, << Emit("room", target, who, << callId >>, Undef) >>,
                       who, s, << callId >>, {})

\* ------------------------------------------------------------ specifications
\* Sessions and the signaling relay: one request, one session, three sockets.
MaxSignalCalls == 1

NextSignal ==
  \/ Connect
  \/ \E s \in Sockets : Disconnect(s)
  \/ \E s \in Sockets : nVcr < MaxSignalCalls /\ VideoCallRequest(s, ByShortCode, s)
  \/ \E s \in Sockets, r \in {VcrId(i) : i \in 0..nVcr}, a \in BOOLEAN :
       nCall < MaxSignalCalls /\ VideoCallResponse(s, r, a, "ACS")
  \/ \E kind \in SignalKinds, s \in Sockets, c \in CallIdsSeen : Relay(kind, s, c)
  \/ \E s \in Sockets, r \in JoinNames : JoinCall(s, r)
  \/ \E kind \in RoomKinds, s \in Sockets, r \in CallIdsSeen \cup {Undef} :
       RoomRelay(kind, s, r)
  \/ \E s \in Sockets, r \in CallIdsSeen \cup {Undef} : RequestOffer(s, r)

SpecSignal == Init /\ [][NextSignal]_vars

\* The events that carry signaling to a peer.
Forwarded == SignalKinds \cup RoomKinds \cup {"request_offer"}

\* The last step handled event `evs` naming a live session.
Signalled(evs) ==
  /\ last.ev \in evs
  /\ Len(last.id) = 1
  /\ CallHas(activeCalls, last.id[1])

IsParticipant(s, callSession) ==
  s = callSession.clientSocketId \/ s = callSession.staffSocketId

\* C1: a signaling message (offer / answer / ice-candidate, or the room-based
\* call_offer / call_answer / ice_candidate / request_offer) that names the
\* callId of a live session and comes from a connection that is neither its
\* client nor its staff is forwarded to no connection.
C1_NonParticipantNotForwarded ==
  (Signalled(Forwarded) /\ ~IsParticipant(last.sock, SessionOf(activeCalls, last.id[1])))
    => \A d \in out : d.ev \notin Forwarded

\* C2: an 'offer' or 'answer' of a participant of a session whose two ends are
\* distinct live connections reaches the other end and no other connection,
\* tagged with the callId and the sender's connection id.
C2_RelayToPeerOnly ==
  LET callSession == SessionOf(activeCalls, last.id[1])
      peer == IF last.sock = callSession.clientSocketId THEN callSession.staffSocketId
              ELSE callSession.clientSocketId
  IN (/\ Signalled({"offer", "answer"})
      /\ IsParticipant(last.sock, callSession)
      /\ peer # last.sock
      /\ peer \in connected)
       => /\ {d.to : d \in out} = {peer}
          /\ \A d \in out : d.ev = last.ev /\ d.id = last.id /\ d.from = last.sock
\* Requests, their answers, and the requester going away: one request of each
\* kind, answered any number of times.
MaxRespondRequests == 1

NextRespond ==
  \/ Connect
  \/ \E s \in Sockets : Disconnect(s)
  \/ \E s \in Sockets : nVcr < MaxRespondRequests /\ VideoCallRequest(s, ByShortCode, s)
  \/ \E s \in Sockets, r \in {VcrId(i) : i \in 0..nVcr}, a \in BOOLEAN :
       VideoCallResponse(s, r, a, "ACS")
  \/ \E s \in Sockets : nReq < MaxRespondRequests /\ CallRequest(s, "acs@college.edu")
  \/ \E s \in Sockets, r \in {ReqId(i) : i \in 0..nReq} :
       CallAccepted(s, r, "acs@college.edu")
  \/ \E s \in Sockets, r \in {ReqId(i) : i \in 0..nReq} : CallRejected(s, r)

SpecRespond == Init /\ [][NextRespond]_vars

\* C3: a 'video-call-response' on a request that was already answered changes
\* no registry (request status, activeCalls, pending queue) and emits nothing.
C3_SecondResponseIgnored ==
  (/\ last.ev = "video-call-response"
   /\ Len(last.id) = 1
   /\ last.id[1] \in DOMAIN videoCallRequests
   /\ << "pending" >> \notin last.pre)
    => ~last.changed /\ out = {}

\* The sockets whose disconnect handler has run to its end.
Gone == {s \in closed : \A p \in procs : ~(p.kind = "disconnect" /\ p.sock = s)}

\* The request ids held in a queue map.
QueuedIds(m) == UNION {{m[k][i] : i \in DOMAIN m[k]} : k \in DOMAIN m}
QueuedCallIds(m) == UNION {{m[k][i][1] : i \in DOMAIN m[k]} : k \in DOMAIN m}

\* C9: once a client connection is gone, none of the requests it made is still
\* pending, nor in pendingStaffCalls, pendingVideoCalls or incomingCallRequests.
C9_DisconnectDropsRequests ==
  \A r \in DOMAIN requester :
    requester[r] \in Gone
      => /\ VideoRequestOf(videoCallRequests, r).status # "pending"
         /\ r \notin QueuedIds(pendingVideoCalls)
         /\ r \notin QueuedCallIds(pendingStaffCalls)
         /\ r \notin DOMAIN incomingCallRequests

\* C10: an accept ('video-call-response' with accepted = true, or
\* 'call-accepted') of a request whose requester has disconnected creates no
\* session.
C10_NoStaleAccept ==
  [][(/\ last'.ev \in {"video-call-response", "call-accepted"}
      /\ << "reject" >> \notin last'.pre
      /\ Len(last'.id) = 1
      /\ last'.id[1] \in DOMAIN requester
      /\ requester[last'.id[1]] \in closed)
       => activeCalls' = activeCalls]_vars

\* Sessions against disconnects, the database being down: one staff identity,
\* one request, accepted any number of times by connections other than the
\* client's.
NextDisconnect ==
  \/ Connect
  \/ \E s \in Sockets : Disconnect(s)
  \/ \E s \in Sockets : /\ procs = {}
                        /\ staffSessions = EmptyMap
                        /\ StaffLogin(s, ProfileUser(staffProfiles[1]))
  \/ \E p \in procs : StaffLoginResume(p)
  \/ \E s \in Sockets : nVcr < MaxRespondRequests /\ VideoCallRequest(s, ByShortCode, s)
  \/ \E s \in Sockets, r \in {VcrId(i) : i \in 1..nVcr} :
       /\ videoCallRequests[r].clientSocketId # s
       /\ VideoCallResponse(s, r, TRUE, "ACS")

SpecDisconnect == Init /\ [][NextDisconnect]_vars

\* Presence against disconnects, the database being down: the three ways of
\* registering one staff identity.
NextPresence ==
  \/ Connect
  \/ \E s \in Sockets : Disconnect(s)
  \/ \E s \in Sockets : StaffLogin(s, ProfileUser(staffProfiles[1]))
  \/ \E p \in procs : StaffLoginResume(p)
  \/ \E s \in Sockets : RestoreSession(s, "acs@college.edu")
  \/ \E s \in Sockets : RegisterStaff(s, "acs@college.edu")

SpecPresence == Init /\ [][NextPresence]_vars

\* The 'call-ended' deliveries of the last step to `to` for session `callId`.
CallEndedTo(callId, to) ==
  {d \in out : d.ev = "call-ended" /\ d.id = << callId >> /\ d.to = to}

\* C4: when the disconnect handler of a connection has run, no session of
\* activeCalls has it as client or staff, and the live peer of every session it
\* was bound to has been sent exactly one 'call-ended' for that session.
C4_DisconnectEndsEverySession ==
  (last.ev \in {"disconnect", "disconnect-resume"} /\ last.sock \in Gone)
    => /\ BoundTo(last.sock, activeCalls) = {}
       /\ \A b \in last.pre :
            (b[2] \in connected /\ b[2] # last.sock)
              => Cardinality(CallEndedTo(b[1], b[2])) = 1

\* C7: once a connection that registered a staff identity is gone, neither the
\* staff id, nor the short code, nor the email resolves to it.
C7_NoAliasToDeadConnection ==
  \A s \in Gone :
    /\ \A k \in DOMAIN staffSessions : staffSessions[k] # s
    /\ \A k \in DOMAIN staffEmailSessions : staffEmailSessions[k] # s

\* Ending a session and logging it: one staff identity, one client, one
\* request, accepted by connections other than the client's; the database
\* comes up at some point and stays up.
MaxPairSockets == 2

NextEnd ==
  \/ Cardinality(connected) < MaxPairSockets /\ Connect
  \/ ~dbConnected /\ DbChange
  \/ Tick
  \/ \E s \in Sockets : /\ procs = {}
                        /\ staffSessions = EmptyMap
                        /\ StaffLogin(s, ProfileUser(staffProfiles[1]))
  \/ \E p \in procs : StaffLoginResume(p)
  \/ \E s \in Sockets : /\ procs = {}
                        /\ clientSessions = EmptyMap
                        /\ StartConversation(s, "ACS", "fees")
  \/ \E p \in procs : StartConversationResume(p)
  \/ \E s \in Sockets : nVcr < MaxRespondRequests /\ VideoCallRequest(s, ByShortCode, s)
  \/ \E s \in Sockets, r \in {VcrId(i) : i \in 1..nVcr} :
       /\ videoCallRequests[r].clientSocketId # s
       /\ VideoCallResponse(s, r, TRUE, "ACS")
  \/ \E s \in Sockets, c \in CallIdsSeen : EndCall(s, c)
  \/ \E p \in procs : StaffCallLogFind(p)
  \/ \E p \in procs, fails \in BOOLEAN : EndCallLogged(p, fails)
  \/ \E p \in procs : EndCallFinish(p)
  \/ \E p \in procs, fails \in BOOLEAN : EndCallUpdated(p, fails)

SpecEnd == Init /\ [][NextEnd]_vars

\* Another participant's 'end-call' for the session is suspended at an await.
PeerEnding(callId, s) ==
  \E p \in procs : p.kind = "end-call" /\ p.callId = callId /\ p.sock # s

\* C5: when a participant's 'end-call' is handled while the other participant's
\* 'end-call' for the same session waits at its await, each of the two
\* connections has been sent exactly one 'call-ended' for the session.
C5_OneCallEndedEach ==
  (last.ev = "end-call" /\ Len(last.id) = 1 /\ PeerEnding(last.id[1], last.sock))
    => \A e \in last.pre :
         e[1] = "ended"
           => /\ Count(hist, "call-ended", last.id, e[2]) = 1
              /\ Count(hist, "call-ended", last.id, e[3]) = 1

\* Every 'end-call' of the session has run to its end.
EndCallsDone(callId) == \A p \in procs : ~(p.kind = "end-call" /\ p.callId = callId)

\* C6: when the 'end-call' handlers of both participants have logged the
\* session, the call log holds exactly one entry for the callId and the staff
\* email, with status completed and a duration of at least 0.
C6_OneLogEntry ==
  \A i \in DOMAIN staffCallLog :
    EndCallsDone(staffCallLog[i].callId)
      => /\ Cardinality(LogMatches(staffCallLog, staffCallLog[i].callId,
                                   staffCallLog[i].staffEmail)) = 1
         /\ staffCallLog[i].status = "completed"
         /\ staffCallLog[i].duration >= 0

\* Queueing for an offline staff member and delivery at login, the database
\* being down: one staff identity, every queueing path.
NextQueue ==
  \/ Cardinality(connected \cup closed) < MaxPairSockets /\ Connect
  \/ \E s \in Sockets : Disconnect(s)
  \/ \E s \in Sockets : /\ procs = {}
                        /\ staffSessions = EmptyMap
                        /\ StaffLogin(s, ProfileUser(staffProfiles[1]))
  \/ \E p \in procs : StaffLoginResume(p)
  \/ \E s \in Sockets : RestoreSession(s, "acs@college.edu")
  \/ HttpCallRequest("ACS", "fees")
  \/ \E s \in Sockets : procs = {} /\ StartConversation(s, "ACS", "fees")
  \/ \E p \in procs : StartConversationResume(p)
  \/ \E s \in Sockets : nVcr < MaxRespondRequests /\ VideoCallRequest(s, ByShortCode, s)

SpecQueue == Init /\ [][NextQueue]_vars

\* The names under which requests are queued for a profile: its short code,
\* the ids of its user documents, its email.
Aliases(profile) ==
  {profile.shortName, ProfileUser(profile).id, DbUser(profile).id, profile.email}

\* The last step completed a login of the profile on a live connection.
LoggedIn(profile) ==
  /\ last.sock \in connected
  /\ \/ last.ev = "staff-login-deliver" /\ last.id \in {<< k >> : k \in Aliases(profile)}
     \/ last.ev = "restore-session" /\ last.id = << profile.email >>

\* The deliveries, over the whole run, of 'pending-video-calls' lists holding r.
VideoDeliveries(r) ==
  {k \in DOMAIN hist :
     k[1] = "pending-video-calls" /\ \E i \in DOMAIN k[2] : k[2][i] = r}

\* C8: when a staff member's login (staff-login or restore-session) has run,
\* the queues kept for them under every alias are empty, and no queued request
\* has been delivered more than once.
C8_QueueDrainedOnce ==
  /\ LoggedIn(staffProfiles[1])
       => \A k \in Aliases(staffProfiles[1]) :
            /\ GetList(pendingStaffCalls, k) = << >>
            /\ GetList(pendingVideoCalls, k) = << >>
  /\ \A k \in DOMAIN hist : k[1] = "new-call-request" => hist[k] <= 1
  /\ \A r \in DOMAIN videoCallRequests :
       /\ Cardinality(VideoDeliveries(r)) <= 1
       /\ \A k \in VideoDeliveries(r) : hist[k] <= 1

\* C11: no connection is the client or the staff of more than one session of
\* activeCalls; an accept for a connection already bound to a session inserts
\* nothing.
C11_OneSessionPerConnection ==
  \A s \in Sockets : Cardinality(BoundTo(s, activeCalls)) <= 1

\* ------------------------------------------------------------ chat-message
\* What the assistant collaborator answers: a text reply, a reply that says a
\* video call was accepted for a staff member, or an exception.
ChatReplies == {"text", "video", "throws"}

\* The user 'chat-message' registers for a connection that has none.
TransientUser(s) ==
  [role |-> "client", id |-> "visitor_" \o s, email |-> Undef, name |-> "Visitor",
   db |-> FALSE]

\* socket.on('chat-message') up to the await of the assistant: a connection
\* without a user gets a transient one.
ChatMessage(s) ==
  LET user == IF MapHas(connectedUsers, s) THEN connectedUsers[s] ELSE TransientUser(s)
      proc == [Proc("chat-message", "claraAI", s) EXCEPT !.user = user]
  IN /\ s \in connected
     /\ proc \notin procs
     /\ Cardinality(procs) < MaxProcs
     /\ connectedUsers' = MapSet(connectedUsers, s, user)
     /\ procs' = procs \cup {proc}
     /\ UNCHANGED << netVars, envVars, staffSessions, staffEmailSessions, activeCalls,
                     requestVars, convVars, staffCallLog, nCall, exiting, requester >>
     /\ Record(connected, << >>, "chat-message", s, << >>, {})

\* 'chat-message' after the assistant answered: 'ai-response' to the sender, and
\* for an accepted video call a session in state 'initiating' that holds the
\* sender as its client and no staff connection, announced to everyone.
ChatMessageResume(p, reply) ==
  LET callId == CallId(nCall + 1)
      callSession == [callId |-> callId, clientSocketId |-> p.sock,
                      staffSocketId |-> Undef, startTime |-> now,
                      status |-> "initiating", videoCallRequest |-> Undef,
                      endTime |-> NoTime, duration |-> NoTime]
  IN /\ p \in procs
     /\ p.kind = "chat-message"
     /\ procs' = procs \ {p}
     /\ UNCHANGED << netVars, envVars, presenceVars, requestVars, convVars, staffCallLog,
                     exiting, requester >>
     /\ CASE reply = "throws" ->
               /\ UNCHANGED << activeCalls, nCall >>
               /\ Record(connected, << Emit("socket", p.sock, "error", << >>, Undef) >>,
                         "chat-reply", p.sock, << >>, {<< reply >>})
          [] reply = "text" ->
               /\ UNCHANGED << activeCalls, nCall >>
               /\ Record(connected, << Emit("socket", p.sock, "ai-response", << >>, Undef) >>,
                         "chat-reply", p.sock, << >>, {<< reply >>})
          [] reply = "video" ->
               /\ nCall < MaxCalls
               /\ nCall' = nCall + 1
               /\ activeCalls' = CallSet(activeCalls, callSession)
               /\ Record(connected,
                         << Emit("socket", p.sock, "ai-response", << >>, Undef),
                            Emit("socket", p.sock, "call-request", << >>, Undef),
                            Emit("all", Undef, "webrtc-call-request", << callId >>, Undef),
                            Emit("all", Undef, "call-update", << callId >>, Undef) >>,
                         "chat-reply", p.sock, << callId >>, {<< reply >>})

\* ------------------------------------------------- session status handlers
\* A handler that looks the session up, rewrites it and emits: nothing happens
\* for an unknown callId.
Rewrite(s, ev, callId, calls, es) ==
  /\ s \in connected
  /\ UNCHANGED << netVars, envVars, presenceVars, requestVars, convVars, staffCallLog,
                  nCall, exiting, requester, procs >>
  /\ IF CallHas(activeCalls, callId)
     THEN /\ activeCalls' = calls
          /\ Record(connected, es, ev, s, << callId >>,
                    {<< "status", SessionOf(activeCalls, callId).status >>})
     ELSE /\ UNCHANGED activeCalls
          /\ Record(connected, << >>, ev, s, << callId >>, {})

\* activeCalls after callSession.status = status.
WithStatus(callId, status) ==
  CallSet(activeCalls, [SessionOf(activeCalls, callId) EXCEPT !.status = status])

\* socket.on('webrtc-call-response'): the status becomes 'accepted' or
\* 'declined' and the client is told; the session stays in activeCalls.
WebrtcCallResponse(s, callId, accepted) ==
  LET client == SessionOf(activeCalls, callId).clientSocketId
  IN Rewrite(s, "webrtc-call-response", callId,
             WithStatus(callId, IF accepted THEN "accepted" ELSE "declined"),
             << Emit("room", client, "webrtc-call-response", << callId >>, Undef) >>
             \o (IF accepted
                 THEN << Emit("room", client, "video_call_started", << callId >>, Undef) >>
                 ELSE << >>))

\* socket.on('accept-video-call'): the status becomes 'accepted'.
AcceptVideoCall(s, callId) ==
  LET client == SessionOf(activeCalls, callId).clientSocketId
  IN Rewrite(s, "accept-video-call", callId, WithStatus(callId, "accepted"),
             << Emit("room", client, "video-call-accepted", << callId >>, Undef),
                Emit("all", Undef, "call-update", << callId >>, Undef) >>)

\* socket.on('reject-video-call'): the status becomes 'rejected', the client is
\* told and the session is deleted.
RejectVideoCall(s, callId) ==
  LET client == SessionOf(activeCalls, callId).clientSocketId
  IN Rewrite(s, "reject-video-call", callId, CallDelete(activeCalls, callId),
             << Emit("room", client, "video-call-rejected", << callId >>, Undef),
                Emit("all", Undef, "call-update", << callId >>, Undef) >>)

\* What a client puts in the duration field of 'call_ended'.
Durations == {0, 7}

\* socket.on('call_ended'), the registration that reads activeCalls: the
\* duration is the payload's, the end time the server's, the status becomes
\* 'completed', the client and then everyone are told. The two other
\* registrations of the event forward the payload to everyone and to the room
\* named by its sessionId, which the payload does not carry.
CallEnded(s, callId, duration) ==
  LET callSession == SessionOf(activeCalls, callId)
      client == callSession.clientSocketId
  IN Rewrite(s, "call_ended", callId,
             CallSet(activeCalls, [callSession EXCEPT !.duration = duration,
                                                      !.endTime = now,
                                                      !.status = "completed"]),
             << Emit("room", client, "call_ended", << callId >>, Undef),
                Emit("all", Undef, "call_ended", << callId >>, Undef) >>)

\* socket.on('video_call_accepted'): the status becomes 'active' and the start
\* time is taken again.
VideoCallAccepted(s, callId) ==
  LET client == SessionOf(activeCalls, callId).clientSocketId
      callSession == SessionOf(activeCalls, callId)
  IN Rewrite(s, "video_call_accepted", callId,
             CallSet(activeCalls, [callSession EXCEPT !.status = "active",
                                                      !.startTime = now]),
             << Emit("room", client, "video-call-accepted", << callId >>, Undef),
                Emit("room", client, "video_call_started", << callId >>, Undef),
                Emit("socket", s, "video_call_accepted", << callId >>, Undef) >>)

\* Sessions and the events that create, rewrite and end them, the database
\* being down: one request, chat messages, three sockets.
SessionEnders == {"call-ended-by-client", "call-ended-by-staff"}

\* The callIds handed out so far.
SessionIds == {CallId(i) : i \in 1..nCall}

NextSession ==
  \/ Connect
  \/ \E s \in Sockets : nVcr < MaxRespondRequests /\ VideoCallRequest(s, ByShortCode, s)
  \/ \E s \in Sockets, r \in {VcrId(i) : i \in 1..nVcr}, a \in BOOLEAN :
       /\ videoCallRequests[r].clientSocketId # s
       /\ nCall < MaxSignalCalls
       /\ VideoCallResponse(s, r, a, "ACS")
  \/ \E s \in Sockets : /\ connectedUsers = EmptyMap
                        /\ nCall < MaxSignalCalls
                        /\ ChatMessage(s)
  \/ \E p \in procs, reply \in ChatReplies : ChatMessageResume(p, reply)
  \/ \E s \in Sockets, c \in SessionIds, a \in BOOLEAN : WebrtcCallResponse(s, c, a)
  \/ \E s \in Sockets, c \in SessionIds : AcceptVideoCall(s, c)
  \/ \E s \in Sockets, c \in SessionIds : RejectVideoCall(s, c)
  \/ \E s \in Sockets, c \in SessionIds : CallEnded(s, c, 7)
  \/ \E s \in Sockets, c \in SessionIds : VideoCallAccepted(s, c)
  \/ \E who \in SessionEnders, s \in Sockets, c \in SessionIds : CallEndedBy(who, s, c)
  \/ \E s \in Sockets, c \in SessionIds : EndCall(s, c)

SpecSession == Init /\ [][NextSession]_vars

\* C12: a session enters activeCalls only by a staff accept of a call request
\* ('video-call-response' with accepted = true, or 'call-accepted'), and when
\* it enters, its client and its staff connection are two distinct connections
\* that are both connected.
C12_SessionsFromAcceptOnly ==
  [][\A i \in DOMAIN activeCalls' :
       ~CallHas(activeCalls, activeCalls'[i].callId)
         => /\ last'.ev \in {"video-call-response", "call-accepted"}
            /\ activeCalls'[i].clientSocketId \in connected'
            /\ activeCalls'[i].staffSocketId \in connected'
            /\ activeCalls'[i].clientSocketId # activeCalls'[i].staffSocketId]_vars

\* The session states no edge leaves, and the answered states of a request.
TerminalStatuses == {"completed", "aborted", "rejected", "declined"}
AnsweredStatuses == {"accepted", "rejected"}

\* C13: once a session's status is completed, aborted, rejected or declined no
\* later event changes it, and once a call request is accepted or rejected no
\* later response changes its status.
C13_TerminalStatusKept ==
  [][/\ \A i \in DOMAIN activeCalls :
          (/\ activeCalls[i].status \in TerminalStatuses
           /\ CallHas(activeCalls', activeCalls[i].callId))
            => SessionOf(activeCalls', activeCalls[i].callId).status
                 = activeCalls[i].status
     /\ \A r \in DOMAIN videoCallRequests :
          videoCallRequests[r].status \in AnsweredStatuses
            => videoCallRequests'[r].status = videoCallRequests[r].status]_vars

\* The events that end a session and the notices that tell a participant so.
TerminatingEvents == SessionEnders \cup {"end-call", "call_ended", "reject-video-call"}
TerminationNotices ==
  SessionEnders \cup {"call-ended", "call_ended", "video-call-rejected"}

\* C14: a terminating event ('end-call', 'call-ended-by-client',
\* 'call-ended-by-staff', 'call_ended', 'reject-video-call') that names a live
\* session and comes from a connection that is neither its client nor its staff
\* leaves activeCalls, the session's status included, unchanged and delivers no
\* termination notice.
C14_NonParticipantCannotEnd ==
  [][(/\ last'.ev \in TerminatingEvents
      /\ Len(last'.id) = 1
      /\ CallHas(activeCalls, last'.id[1])
      /\ ~IsParticipant(last'.sock, SessionOf(activeCalls, last'.id[1])))
       => /\ activeCalls' = activeCalls
          /\ \A d \in out' : d.ev \notin TerminationNotices]_vars

\* Requests for a staff member who comes and goes: one staff identity, logins
\* with and without the database, one request of each kind, two sockets.
NextOffline ==
  \/ Cardinality(connected \cup closed) < MaxPairSockets /\ Connect
  \/ ~dbConnected /\ DbChange
  \/ \E s \in Sockets : Disconnect(s)
  \/ \E p \in procs : DisconnectResume(p)
  \/ \E s \in Sockets, user \in {ProfileUser(staffProfiles[1]), DbUser(staffProfiles[1])} :
       /\ procs = {}
       /\ staffSessions = EmptyMap
       /\ StaffLogin(s, user)
  \/ \E p \in procs : StaffLoginResume(p)
  \/ \E s \in Sockets : nVcr < MaxRespondRequests /\ VideoCallRequest(s, ByShortCode, s)
  \/ nCall < MaxSignalCalls /\ HttpCallRequest("ACS", "fees")

SpecOffline == Init /\ [][NextOffline]_vars

\* The staff member has no live connection: no alias of theirs leads to a
\* connected socket and no connected socket holds their user.
StaffOffline(profile) ==
  /\ \A k \in Aliases(profile) :
       /\ MapGet(staffSessions, k) \notin connected
       /\ MapGet(staffEmailSessions, k) \notin connected
  /\ \A s \in connected : ProfileOfUser(UserOf(connectedUsers, s)) # profile

\* C15: a call request ('video-call-request' or POST /api/staff/call-request)
\* for a known staff member who is offline produces no error: the request is
\* created and appended to the staff member's pending queue, and the caller is
\* told that it was queued.
C15_OfflineRequestQueued ==
  [][(/\ StaffOffline(staffProfiles[1])
      /\ last'.ev \in {"video-call-request", "http-call-request"})
       => /\ \A d \in out' : d.ev # "video-call-error"
          /\ << "404" >> \notin last'.pre
          /\ last'.ev = "video-call-request"
               => /\ nVcr' = nVcr + 1
                  /\ MapHas(videoCallRequests', VcrId(nVcr'))
                  /\ GetList(pendingVideoCalls', "ACS")
                       = Append(GetList(pendingVideoCalls, "ACS"), VcrId(nVcr'))
                  /\ \E d \in out' : /\ d.to = last'.sock
                                     /\ d.ev = "video-call-request-sent"
                                     /\ d.id = << VcrId(nVcr'), "queued" >>
          /\ last'.ev = "http-call-request"
               => /\ Len(GetList(pendingStaffCalls', "ACS"))
                       = Len(GetList(pendingStaffCalls, "ACS")) + 1
                  /\ last'.pre = {<< "queued" >>}]_vars

\* Requests that name nobody: a short code, a name and an email that no entry
\* of staffProfiles has.
UnknownStaffId == "XYZ"
UnknownStaffEmail == "nobody@college.edu"
UnknownTarget == [staffId |-> UnknownStaffId, staffName |-> "Nobody", staffEmail |-> Undef]

\* Runs in which every request names nobody, with and without the database.
NextUnknown ==
  \/ Cardinality(connected \cup closed) < MaxPairSockets /\ Connect
  \/ ~dbConnected /\ DbChange
  \/ \E s \in Sockets : VideoCallRequest(s, UnknownTarget, s)
  \/ HttpCallRequest(UnknownStaffId, "fees")
  \/ \E s \in Sockets : CallRequest(s, UnknownStaffEmail)
  \/ \E s \in Sockets : procs = {} /\ StartConversation(s, UnknownStaffId, "fees")
  \/ \E p \in procs : StartConversationResume(p)

SpecUnknown == Init /\ [][NextUnknown]_vars

\* The steps that answer a request, and the errors they can answer with.
RequestAnswers ==
  {"video-call-request", "http-call-request", "call-request", "start-conversation-resume"}
RequestErrors == {"video-call-error", "call-request-error", "conversation-error"}

\* C16: a request ('video-call-request', 'start-conversation', 'call-request',
\* POST /api/staff/call-request) whose target matches no staff member is
\* answered with a not-found error and creates nothing: no request record, no
\* queue entry, no waiting call and no session.
C16_UnknownTargetRefused ==
  [][last'.ev \in RequestAnswers
       => /\ << videoCallRequests, pendingVideoCalls, pendingStaffCalls,
                incomingCallRequests, waitingCalls, activeCalls >>'
               = << videoCallRequests, pendingVideoCalls, pendingStaffCalls,
                    incomingCallRequests, waitingCalls, activeCalls >>
          /\ IF last'.ev = "http-call-request"
             THEN last'.pre = {<< "404" >>}
             ELSE /\ \E d \in out' : d.to = last'.sock /\ d.ev \in RequestErrors
                  /\ \A d \in out' : d.ev \in RequestErrors]_vars

\* Sessions that run for a while and are completed: one request, accepted,
\* the clock, two sockets.
NextCompleted ==
  \/ Cardinality(connected \cup closed) < MaxPairSockets /\ Connect
  \/ Tick
  \/ \E s \in Sockets : nVcr < MaxRespondRequests /\ VideoCallRequest(s, ByShortCode, s)
  \/ \E s \in Sockets, r \in {VcrId(i) : i \in 1..nVcr} :
       /\ videoCallRequests[r].clientSocketId # s
       /\ VideoCallResponse(s, r, TRUE, "ACS")
  \/ \E s \in Sockets, c \in SessionIds : VideoCallAccepted(s, c)
  \/ \E s \in Sockets, c \in SessionIds, d \in Durations : CallEnded(s, c, d)

SpecCompleted == Init /\ [][NextCompleted]_vars

\* C17: the duration of every session whose status is 'completed' is its
\* endTime minus its startTime, both read from the server clock, and is not
\* negative; a value the client sent never becomes the duration.
C17_DurationMeasured ==
  \A i \in DOMAIN activeCalls :
    activeCalls[i].status = "completed"
      => /\ activeCalls[i].duration = activeCalls[i].endTime - activeCalls[i].startTime
         /\ activeCalls[i].duration >= 0

\* ------------------------------------------------------------ staff status
\* The status ladder of GET /api/staff/status/:staffId and of
\* 'check_teacher_availability': each later test overwrites the earlier label.
StatusLabel(isOnline, inClass, isBusy) ==
  IF isBusy THEN "busy"
  ELSE IF inClass THEN "in_class"
  ELSE IF isOnline THEN "online"
  ELSE "offline"

\* GET /api/staff/status/:staffId: online by staffSessions, busy by a session of
\* the socket registered for the profile's email, in class by the timetable,
\* which is read only with the database up and an email.
GetStaffStatus(staffId, classNow) ==
  LET isOnline == MapHas(staffSessions, staffId)
      profile == Find(staffProfiles, LAMBDA q : q.shortName = staffId)
      staffEmail == profile.email
      staffSocketId == IF Truthy(staffEmail) THEN MapGet(staffEmailSessions, staffEmail)
                       ELSE Undef
      isBusy == /\ Truthy(staffSocketId)
                /\ \E i \in DOMAIN activeCalls : activeCalls[i].staffSocketId = staffSocketId
      inClass == dbConnected /\ Truthy(staffEmail) /\ classNow
  IN /\ UNCHANGED << netVars, envVars, Registries, staffCallLog, nCall, nVcr, nReq,
                     exiting, requester, procs >>
     /\ Record(connected, << >>, "http-staff-status", Undef,
               << staffId, StatusLabel(isOnline, inClass, isBusy) >>,
               IF inClass THEN {<< "class" >>} ELSE {})

\* Status queries while a staff member logs in, takes a call and leaves, with
\* and without the database: one staff identity, one request, two sockets.
NextStatus ==
  \/ Cardinality(connected \cup closed) < MaxPairSockets /\ Connect
  \/ ~dbConnected /\ DbChange
  \/ \E s \in Sockets : Disconnect(s)
  \/ \E p \in procs : DisconnectResume(p)
  \/ \E s \in Sockets, user \in {ProfileUser(staffProfiles[1]), DbUser(staffProfiles[1])} :
       /\ procs = {}
       /\ staffSessions = EmptyMap
       /\ StaffLogin(s, user)
  \/ \E p \in procs : StaffLoginResume(p)
  \/ \E s \in Sockets : nVcr < MaxRespondRequests /\ VideoCallRequest(s, ByShortCode, s)
  \/ \E s \in Sockets, r \in {VcrId(i) : i \in 1..nVcr} :
       /\ videoCallRequests[r].clientSocketId # s
       /\ nCall < MaxSignalCalls
       /\ VideoCallResponse(s, r, TRUE, "ACS")
  \/ \E classNow \in BOOLEAN : GetStaffStatus("ACS", classNow)

SpecStatus == Init /\ [][NextStatus]_vars

\* The live connections of a staff member.
StaffSockets(profile) ==
  {s \in connected :
     \/ ProfileOfUser(UserOf(connectedUsers, s)) = profile
     \/ \E k \in Aliases(profile) :
          MapGet(staffSessions, k) = s \/ MapGet(staffEmailSessions, k) = s}

\* The staff member is the staff end of a session on a live connection.
StaffBusy(profile) ==
  \E s \in StaffSockets(profile), i \in DOMAIN activeCalls :
    activeCalls[i].staffSocketId = s

\* C18: the status reported for a staff member is offline when they have no
\* live connection, else busy when they are in a session, else in_class when
\* the timetable shows a class in progress, else online.
C18_StatusPrecedence ==
  last.ev = "http-staff-status"
    => last.id[2] =
         (IF StaffSockets(staffProfiles[1]) = {} THEN "offline"
          ELSE IF StaffBusy(staffProfiles[1]) THEN "busy"
          ELSE IF << "class" >> \in last.pre THEN "in_class"
          ELSE "online")

\* C19: while an 'end-call' handler waits at an await of its persistence, the
\* in-memory termination is already complete: the session it ends is no longer
\* in activeCalls (so its staff member no longer counts as busy).
C19_TerminatedBeforeAwait ==
  \A p \in procs : p.kind = "end-call" => ~CallHas(activeCalls, p.callId)

\* The last step was a persistence failure inside 'end-call': the write of the
\* call log or the update of the call record failed.
PersistenceFailed ==
  /\ last.ev \in {"end-call-logged", "end-call-updated"}
  /\ << "failed" >> \in last.pre

\* C20: when the call-log write or the call-record update of 'end-call' fails,
\* the termination stands and nobody is told of an error: the session is out of
\* activeCalls, both participants have their 'call-ended', and the failure
\* delivers no 'call-error'.
C20_PersistenceFailureSwallowed ==
  PersistenceFailed
    => /\ ~CallHas(activeCalls, last.id[1])
       /\ Cardinality({s \in Sockets : Count(hist, "call-ended", last.id, s) >= 1}) >= 2
       /\ \A d \in out : d.ev # "call-error"

\* A log write failed, the handler went on to delete the session and now
\* waits for the call record.
C20_FailedWriteSeen ==
  /\ PersistenceFailed
  /\ last.ev = "end-call-logged"
  /\ ~CallHas(activeCalls, last.id[1])
  /\ \E p \in procs : p.kind = "end-call" /\ p.pc = "Call.findById" /\ p.callId = last.id[1]

\* ------------------------------------------------------- handler exceptions
\* socket.on('offer' / 'answer' / 'ice-candidate') for an event sent without a
\* payload: the handler destructures undefined, the TypeError leaves the
\* listener and reaches process.on('uncaughtException'), which schedules the
\* exit.
SignalNoPayload(kind, s) ==
  /\ s \in connected
  /\ exiting' = TRUE
  /\ UNCHANGED << netVars, envVars, Registries, staffCallLog, nCall, nVcr, nReq,
                  requester, procs >>
  /\ Record(connected, << >>, kind, s, << >>, {<< "no-payload" >>})

\* Handlers that can throw: signaling with and without a payload, and
\* disconnects of staff registered under two identities; two sockets.
NextCrash ==
  \/ Cardinality(connected \cup closed) < MaxPairSockets /\ Connect
  \/ \E s \in Sockets : Disconnect(s)
  \/ \E s \in Sockets, i \in DOMAIN staffProfiles : RestoreSession(s, staffProfiles[i].email)
  \/ \E s \in Sockets : nVcr < MaxSignalCalls /\ VideoCallRequest(s, ByShortCode, s)
  \/ \E s \in Sockets, r \in {VcrId(i) : i \in 1..nVcr} :
       nCall < MaxSignalCalls /\ VideoCallResponse(s, r, TRUE, "ACS")
  \/ \E kind \in SignalKinds, s \in Sockets, c \in CallIdsSeen : Relay(kind, s, c)
  \/ \E kind \in SignalKinds, s \in Sockets : SignalNoPayload(kind, s)

SpecCrash == Init /\ [][NextCrash]_vars

\* C21: no exception of a socket event handler reaches the process-level
\* uncaughtException / unhandledRejection handlers that exit the process.
C21_NoProcessExit == ~exiting

\* The session was ended by an 'end-call' whose handler has finished.
EndedBefore(callId) ==
  /\ ~CallHas(activeCalls, callId)
  /\ EndCallsDone(callId)
  /\ \E s \in Sockets : Count(hist, "call-ended", << callId >>, s) >= 1

\* C22: an 'end-call' for a session that an earlier, completed 'end-call' has
\* ended changes no state and delivers no event, no error event either.
C22_SecondEndAbsorbed ==
  [][(/\ last'.ev = "end-call"
      /\ Len(last'.id) = 1
      /\ EndedBefore(last'.id[1]))
       => /\ out' = {}
          /\ Registries' = Registries
          /\ procs' = procs]_vars

\* C23: an 'end-call' from the client or the staff of a live session, whose
\* other end is a different live connection, ends the session: the other end
\* receives exactly one 'call-ended' for it, and the session leaves activeCalls
\* (at the latest when the handler, if it waits for the call log, resumes),
\* whether or not the sender has a user registered.
C23_ParticipantEndCallEnds ==
  [][LET callSession == SessionOf(activeCalls, last'.id[1])
         peer == IF last'.sock = callSession.clientSocketId
                 THEN callSession.staffSocketId ELSE callSession.clientSocketId
     IN (/\ last'.ev = "end-call"
         /\ Len(last'.id) = 1
         /\ CallHas(activeCalls, last'.id[1])
         /\ IsParticipant(last'.sock, callSession)
         /\ peer # last'.sock
         /\ peer \in connected)
          => /\ Cardinality({d \in out' : d.ev = "call-ended" /\ d.to = peer
                                          /\ d.id = last'.id}) = 1
             /\ \/ ~CallHas(activeCalls', last'.id[1])
                \/ \E p \in procs' : p.kind = "end-call" /\ p.callId = last'.id[1]]_vars

\* Logins of one staff member by every route, with and without the database,
\* and disconnects: two sockets.
NextLogin ==
  \/ Cardinality(connected \cup closed) < MaxPairSockets /\ Connect
  \/ ~dbConnected /\ DbChange
  \/ \E s \in Sockets : Disconnect(s)
  \/ \E p \in procs : DisconnectResume(p)
  \/ \E s \in Sockets, user \in {ProfileUser(staffProfiles[1]), DbUser(staffProfiles[1])} :
       procs = {} /\ StaffLogin(s, user)
  \/ \E p \in procs : StaffLoginResume(p)
  \/ \E s \in Sockets : RestoreSession(s, "acs@college.edu")
  \/ \E s \in Sockets : RegisterStaff(s, "acs@college.edu")

SpecLogin == Init /\ [][NextLogin]_vars

\* The last step registered a successful 'staff-login'.
LoginRegistered ==
  /\ last.ev \in {"staff-login", "staff-login-register"}
  /\ << "registered" >> \in last.pre

AliasBindings(profile) ==
  {staffSessions[k] : k \in {profile.shortName, ProfileUser(profile).id,
                             DbUser(profile).id} \cap DOMAIN staffSessions}
    \cup {staffEmailSessions[k] : k \in {profile.email} \cap DOMAIN staffEmailSessions}

\* C25: in every reachable state all alias keys of one staff identity that are
\* bound, in staffSessions or in staffEmailSessions, map to the same connection.
C25_OneConnectionPerIdentity ==
  \A i \in DOMAIN staffProfiles : Cardinality(AliasBindings(staffProfiles[i])) <= 1

\* Status queries while one staff member uses several connections, database
\* down: logins of the same identity on any socket, one request, one session.
NextBusy ==
  \/ Connect
  \/ \E s \in Sockets : Disconnect(s)
  \/ \E s \in Sockets : StaffLogin(s, ProfileUser(staffProfiles[1]))
  \/ \E s \in Sockets : nVcr < MaxRespondRequests /\ VideoCallRequest(s, ByShortCode, s)
  \/ \E s \in Sockets, r \in {VcrId(i) : i \in 1..nVcr} :
       /\ videoCallRequests[r].clientSocketId # s
       /\ nCall < MaxSignalCalls
       /\ VideoCallResponse(s, r, TRUE, "ACS")
  \/ GetStaffStatus("ACS", FALSE)

SpecBusy == Init /\ [][NextBusy]_vars

\* The sessions a staff member accepted and that are not yet terminated: the
\* staff end is the connection that holds the staff member's user.
AcceptedSessions(profile) ==
  {i \in DOMAIN activeCalls :
     /\ activeCalls[i].staffSocketId \in connected
     /\ ProfileOfUser(UserOf(connectedUsers, activeCalls[i].staffSocketId)) = profile}

\* C26: while a session accepted by a staff member is in activeCalls, the status
\* computation reports that staff member busy.
C26_BusyWhileInSession ==
  (last.ev = "http-staff-status" /\ AcceptedSessions(staffProfiles[1]) # {})
    => last.id = << staffProfiles[1].shortName, "busy" >>

\* The sessions still in activeCalls whose staff end is a connection that has
\* disconnected.
OrphanSessions ==
  {i \in DOMAIN activeCalls : activeCalls[i].staffSocketId \in closed}

\* C27: disconnect handling is atomic: no status query is answered 'offline'
\* for the staff member while a session bound to their disconnected connection
\* is still in activeCalls.
C27_DisconnectAtomic ==
  (last.ev = "http-staff-status" /\ last.id[2] = "offline") => OrphanSessions = {}

\* The identifiers the assistant asks the online-staff checker about: a short
\* code, an email, a full name, a name without honorific, an unknown name.
StaffIdentifiers ==
  {"", "ACS", "ldn@college.edu", "Dr. Lakshmi Durga N", "anitha c s", "nobody"}

\* lowerName.replace(/^(prof\.|dr\.|mrs?\.|ms\.)\s*/i, '') on the directory names.
NameWithoutPrefix(lowerName) ==
  CASE lowerName = "prof. anitha c s" -> "anitha c s"
    [] lowerName = "dr. lakshmi durga n" -> "lakshmi durga n"
    [] OTHER -> lowerName

\* The callback of claraAI.setOnlineStaffChecker: true for a key of
\* staffSessions or staffEmailSessions, for a key equal up to case, and when
\* staffProfiles.find finds an entry whose name matches the identifier or whose
\* email or short code has a session.
OnlineStaffChecker(staffIdentifier) ==
  LET identifier == ToLowerCase(staffIdentifier)
      matchingProfile ==
        Find(staffProfiles,
             LAMBDA q :
               \/ ToLowerCase(q.name) = identifier
               \/ NameWithoutPrefix(ToLowerCase(q.name)) = identifier
               \/ Includes(ToLowerCase(q.name), identifier)
               \/ Includes(identifier, ToLowerCase(q.name))
               \/ Truthy(q.email) /\ MapHas(staffEmailSessions, q.email)
               \/ Truthy(q.shortName) /\ MapHas(staffSessions, q.shortName))
      result ==
        /\ Truthy(staffIdentifier)
        /\ \/ MapHas(staffSessions, staffIdentifier)
           \/ MapHas(staffEmailSessions, staffIdentifier)
           \/ \E key \in DOMAIN staffSessions : ToLowerCase(key) = identifier
           \/ matchingProfile # NoProfile
  IN /\ UNCHANGED << netVars, envVars, Registries, staffCallLog, nCall, nVcr, nReq,
                     exiting, requester, procs >>
     /\ Record(connected, << >>, "online-staff-checker", Undef,
               << staffIdentifier, IF result THEN "true" ELSE "false" >>, {})

\* A payload whose fields name different staff members: the short code of the
\* second directory entry, a part of the name of the first.
ByCodeAndName == [staffId |-> "LDN", staffName |-> "Anitha", staffEmail |-> Undef]

\* Requests resolved against the directory: every kind of target, staff online
\* and offline, two sockets.
NextResolve ==
  \/ Cardinality(connected \cup closed) < MaxPairSockets /\ Connect
  \/ \E s \in Sockets : Disconnect(s)
  \/ \E s \in Sockets, i \in DOMAIN staffProfiles :
       staffSessions = EmptyMap /\ StaffLogin(s, ProfileUser(staffProfiles[i]))
  \/ \E s \in Sockets, d \in VideoCallTargets \cup {ByCodeAndName} :
       VideoCallRequest(s, d, s)
  \/ \E staffIdentifier \in StaffIdentifiers : OnlineStaffChecker(staffIdentifier)

SpecResolve == Init /\ [][NextResolve]_vars

\* The rung of the ladder at which a directory entry matches a target: 1 exact
\* id, 2 exact alias (short code or email, case-insensitive), 3 exact display
\* name, 4 display-name substring, 5 no match.
Rank(p, d) ==
  IF Truthy(d.staffId) /\ p.shortName = d.staffId THEN 1
  ELSE IF \/ Truthy(d.staffName) /\ ToLowerCase(p.shortName) = ToLowerCase(d.staffName)
          \/ Truthy(d.staffEmail) /\ ToLowerCase(p.email) = ToLowerCase(d.staffEmail)
       THEN 2
  ELSE IF Truthy(d.staffName) /\ ToLowerCase(p.name) = ToLowerCase(d.staffName) THEN 3
  ELSE IF Truthy(d.staffName) /\ Includes(ToLowerCase(p.name), ToLowerCase(d.staffName))
       THEN 4
  ELSE 5

\* C28: the directory entry a 'video-call-request' resolves its target to
\* matches the target at a rung no other entry beats: an entry matching at a
\* higher rung is preferred to one that only matches at a lower rung, whatever
\* the directory order.
C28_HigherRankPreferred ==
  (last.ev = "video-call-request" /\ Len(last.id) = 1)
    => \A d \in VideoCallTargets \cup {ByCodeAndName} :
         << "target", d.staffId, d.staffName, d.staffEmail >> \in last.pre
           => \A i, j \in DOMAIN staffProfiles :
                staffProfiles[i].shortName = videoCallRequests[last.id[1]].staffId
                  => Rank(staffProfiles[i], d) <= Rank(staffProfiles[j], d)

\* The directory entries an identifier denotes: by short code, email or name,
\* up to case, with or without the honorific, or by a part of the name.
Denoted(staffIdentifier) ==
  {i \in DOMAIN staffProfiles :
     LET q == staffProfiles[i]
         identifier == ToLowerCase(staffIdentifier)
     IN \/ identifier \in {ToLowerCase(q.shortName), ToLowerCase(q.email),
                           ToLowerCase(q.name), NameWithoutPrefix(ToLowerCase(q.name))}
        \/ Includes(ToLowerCase(q.name), identifier)}

\* C29: the online-staff checker answers true for an identifier only if a staff
\* member the identifier denotes has a live connection.
C29_OnlineOnlyIfConnected ==
  (last.ev = "online-staff-checker" /\ last.id[2] = "true")
    => \E i \in Denoted(last.id[1]) : StaffSockets(staffProfiles[i]) # {}

\* The email-targeted requests created so far by 'call-request'.
CreatedRequests == {ReqId(i) : i \in 1..nReq}

\* The last step handled 'call-accepted' or 'call-rejected'.
AnswerStep == last.ev \in {"call-accepted", "call-rejected"} /\ Len(last.id) = 1

\* C30: an email-targeted request is answered at most once. A stored request
\* leaves incomingCallRequests only by its own 'call-accepted' or
\* 'call-rejected', the first answer always removes it, and an answer for a
\* request that was created and is no longer stored creates no session, changes
\* no registry and emits nothing.
C30_AnsweredAtMostOnce ==
  [][/\ \A r \in DOMAIN incomingCallRequests :
          r \notin DOMAIN incomingCallRequests' => AnswerStep' /\ last'.id = << r >>
     /\ (AnswerStep' /\ << "pending" >> \in last'.pre)
          => last'.id[1] \notin DOMAIN incomingCallRequests'
     /\ (AnswerStep' /\ last'.id[1] \in CreatedRequests \ DOMAIN incomingCallRequests)
          => /\ out' = {}
             /\ Registries' = Registries
             /\ nCall' = nCall
             /\ procs' = procs]_vars

\* A request that was already answered has just been answered again.
C30_SecondAnswerSeen ==
  /\ AnswerStep
  /\ last.id[1] \in CreatedRequests \ DOMAIN incomingCallRequests
  /\ << "pending" >> \notin last.pre

\* ---------------------------------------------------------------- accept-call
\* socket.on('accept-call') up to its first await. With the database up the
\* handler awaits Call.findById; without it, it looks the call up in
\* waitingCalls by `c._id === callId`, which no database document (an ObjectId)
\* satisfies, marks it in progress and awaits n8n.
AcceptCall(s, callId) ==
  LET staffUser == UserOf(connectedUsers, s)
      hits == {k \in DOMAIN waitingCalls :
                 waitingCalls[k].id = callId /\ ~waitingCalls[k].db}
      clientSocketId == CHOOSE k \in hits : TRUE
      \* two invocations with equal data are two suspended handlers
      taken == {q.nth : q \in {r \in procs : r.kind = "accept-call"}}
      nth == CHOOSE n \in 0..MaxProcs : n \notin taken /\ \A m \in 0..(n - 1) : m \in taken
      error(why) ==
        /\ UNCHANGED << waitingCalls, procs >>
        /\ Record(connected, << Emit("socket", s, "call-error", << >>, Undef) >>,
                  "accept-call", s, << callId >>, {<< why >>})
  IN /\ s \in connected
     /\ Cardinality(procs) < MaxProcs
     /\ UNCHANGED << netVars, envVars, presenceVars, activeCalls, requestVars,
                     clientSessions, waitingDocs, staffCallLog, nCall, exiting,
                     requester >>
     /\ IF staffUser = NoUser \/ staffUser.role # "staff" THEN error("unauthorized")
        ELSE IF dbConnected
        THEN /\ procs' = procs \cup
                  {[Proc("accept-call", "Call.findById", s)
                      EXCEPT !.user = staffUser, !.callId = callId, !.nth = nth]}
             /\ UNCHANGED waitingCalls
             /\ Record(connected, << >>, "accept-call", s, << callId >>, {})
        ELSE IF hits = {} THEN error("not-found")
        ELSE IF waitingCalls[clientSocketId].staffId # staffUser.id THEN error("not-assigned")
        ELSE /\ waitingCalls' = [waitingCalls EXCEPT ![clientSocketId].status = "in-progress"]
             /\ procs' = procs \cup
                  {[Proc("accept-call", "n8n", s)
                      EXCEPT !.user = staffUser, !.callId = callId,
                             !.client = clientSocketId, !.nth = nth]}
             /\ Record(connected, << >>, "accept-call", s, << callId >>, {})

\* accept-call resumes. After Call.findById: the document must be stored as
\* 'waiting' and assigned to the staff user, and its save is awaited. After
\* call.save the document is stored as 'in-progress' and n8n is awaited. After
\* n8n: the session is set under the call id, the waiting call is deleted, the
\* client gets 'call-accepted' and the staff socket 'call-started'.
AcceptCallResume(p) ==
  LET s == p.sock
      callId == p.callId
      clientSocketId ==
        IF p.client # Undef THEN p.client
        ELSE MapGet(clientSessions, "dbc_" \o MapGet(requester, callId))
      error(why) ==
        /\ procs' = procs \ {p}
        /\ UNCHANGED << activeCalls, waitingCalls, waitingDocs >>
        /\ Record(connected, << Emit("socket", s, "call-error", << >>, Undef) >>,
                  "accept-call-resume", s, << callId >>, {<< why >>})
  IN /\ p \in procs
     /\ p.kind = "accept-call"
     /\ UNCHANGED << netVars, envVars, presenceVars, requestVars, clientSessions,
                     staffCallLog, nCall, exiting, requester >>
     /\ IF p.pc = "Call.findById"
        THEN IF ~MapHas(waitingDocs, callId) THEN error("processed")
             ELSE IF waitingDocs[callId] # p.user.id THEN error("not-assigned")
             ELSE /\ procs' = (procs \ {p}) \cup {[p EXCEPT !.pc = "call.save"]}
                  /\ UNCHANGED << activeCalls, waitingCalls, waitingDocs >>
                  /\ Record(connected, << >>, "accept-call-resume", s, << callId >>,
                            {<< "waiting" >>})
        ELSE IF p.pc = "call.save"
        THEN /\ procs' = (procs \ {p}) \cup {[p EXCEPT !.pc = "n8n"]}
             /\ waitingDocs' = MapDelete(waitingDocs, callId)
             /\ UNCHANGED << activeCalls, waitingCalls >>
             /\ Record(connected, << >>, "accept-call-resume", s, << callId >>,
                       {<< "saved" >>})
        ELSE /\ procs' = procs \ {p}
             /\ UNCHANGED waitingDocs
             /\ IF Truthy(clientSocketId)
                THEN /\ activeCalls' =
                          CallSet(activeCalls,
                                  [callId |-> callId, clientSocketId |-> clientSocketId,
                                   staffSocketId |-> s, startTime |-> now,
                                   status |-> "in-progress", videoCallRequest |-> Undef,
                                   endTime |-> NoTime, duration |-> NoTime])
                     /\ waitingCalls' = MapDelete(waitingCalls, clientSocketId)
                     /\ Record(connected,
                               << Emit("room", clientSocketId, "call-accepted", << callId >>, Undef),
                                  Emit("socket", s, "call-started", << callId >>, Undef),
                                  Emit("all", Undef, "waiting-calls-updated", << >>, Undef) >>,
                               "accept-call-resume", s, << callId >>, {<< "accepted" >>})
                ELSE /\ UNCHANGED << activeCalls, waitingCalls >>
                     /\ Record(connected, << >>, "accept-call-resume", s, << callId >>, {})

\* A waiting call and its acceptance: one staff member logged in through the
\* database, one conversation, accepts from any socket, two sockets.
NextAccept ==
  \/ Cardinality(connected \cup closed) < MaxPairSockets /\ Connect
  \/ ~dbConnected /\ DbChange
  \/ \E s \in Sockets : Disconnect(s)
  \/ \E p \in procs : DisconnectResume(p)
  \/ \E s \in Sockets :
       procs = {} /\ staffSessions = EmptyMap /\ StaffLogin(s, DbUser(staffProfiles[1]))
  \/ \E p \in procs : StaffLoginResume(p)
  \/ \E s \in Sockets :
       /\ procs = {}
       /\ nCall < MaxSignalCalls
       /\ StartConversation(s, "ACS", "fees")
  \/ \E p \in procs : StartConversationResume(p)
  \/ \E s \in Sockets, i \in 1..nCall : AcceptCall(s, CallId(i))
  \/ \E p \in procs : AcceptCallResume(p)

SpecAccept == Init /\ [][NextAccept]_vars

\* C31: however two 'accept-call' handlers for one waiting call interleave,
\* activeCalls holds at most one entry for the call and no client is sent more
\* than one 'call-accepted' for it.
C31_OneAcceptPerCall ==
  \A i \in 1..nCall :
    /\ Cardinality({j \in DOMAIN activeCalls : activeCalls[j].callId = CallId(i)}) <= 1
    /\ \A s \in Sockets : Count(hist, "call-accepted", << CallId(i) >>, s) <= 1

\* The 'new-call-request' deliveries of a step to one socket.
NewCallRequests(ds, s) == {d \in ds : d.ev = "new-call-request" /\ d.to = s}

C33_VideoRequestDeliveredOnce ==
  [][\A d \in out' :
       d.ev = "pending-video-calls"
         => \A i \in DOMAIN d.id : VideoDeliveries(d.id[i]) = {}]_vars

\* C34: a session is destroyed on termination: after a 'call_ended',
\* 'call-ended-by-client', 'call-ended-by-staff' or 'reject-video-call' for a
\* session of activeCalls, and after a 'webrtc-call-response' that declines it,
\* the session is no longer in activeCalls.
C34_SessionDestroyedOnTermination ==
  [][(/\ Len(last'.id) = 1
      /\ CallHas(activeCalls, last'.id[1])
      /\ \/ last'.ev \in TerminatingEvents \ {"end-call"}
         \/ /\ last'.ev = "webrtc-call-response"
            /\ SessionOf(activeCalls', last'.id[1]).status = "declined")
       => ~CallHas(activeCalls', last'.id[1])]_vars

\* C35: relaying never mutates session state: a step that handles 'offer',
\* 'answer' or 'ice-candidate' changes no registry, and what it delivers is
\* decided by activeCalls and the rooms alone, so that a repeated offer is
\* forwarded like the first: a participant's message goes to the room of the
\* session's other end, anyone else gets 'signaling-error' and nothing is
\* forwarded.
C35_RelayKeepsState ==
  (last.ev \in SignalKinds /\ Len(last.id) = 1)
    => LET callSession == SessionOf(activeCalls, last.id[1])
           peer == IF last.sock = callSession.clientSocketId
                   THEN callSession.staffSocketId
                   ELSE callSession.clientSocketId
       IN /\ ~last.changed
          /\ out = Deliver(connected,
                           IF IsParticipant(last.sock, callSession)
                           THEN << Emit("room", peer, last.ev, last.id, last.sock) >>
                           ELSE << Emit("socket", last.sock, "signaling-error", last.id,
                                        Undef) >>)

\* A participant's offer has just been forwarded to the other end.
C35_OfferForwarded ==
  /\ last.ev = "offer"
  /\ IsParticipant(last.sock, SessionOf(activeCalls, last.id[1]))
  /\ \E d \in out : d.ev = "offer" /\ d.to # last.sock


\* ------------------------------------------------------- presence after a call
\* One staff member logs in, a client asks for them by email, the call is
\* accepted with the staff email in the payload (the busy broadcast), and the
\* call is ended by 'end-call' or by a disconnect; the database is down.
NextRelease ==
  \/ Cardinality(connected \cup closed) < MaxPairSockets /\ Connect
  \/ \E s \in Sockets :
       /\ procs = {}
       /\ staffSessions = EmptyMap
       /\ StaffLogin(s, ProfileUser(staffProfiles[1]))
  \/ \E p \in procs : StaffLoginResume(p)
  \/ \E s \in Sockets : nReq < MaxRespondRequests /\ CallRequest(s, "acs@college.edu")
  \/ \E s \in Sockets, r \in {ReqId(i) : i \in 1..nReq} :
       nCall < MaxSignalCalls /\ CallAccepted(s, r, "acs@college.edu")
  \/ \E s \in Sockets, c \in {CallId(i) : i \in 1..nCall} : EndCall(s, c)
  \/ \E s \in Sockets : Disconnect(s)

\* A handler suspended at an await is resumed: the event loop runs every
\* settled promise's continuation.
SpecRelease == Init /\ [][NextRelease]_vars /\ WF_vars(\E p \in procs : StaffLoginResume(p))

\* The step just taken ended a session whose acceptance broadcast busy: an
\* 'end-call' of a participant, or the disconnect of the requesting client;
\* the identity is still registered on a live connection and is bound to no
\* session.
CallTerminated ==
  /\ \/ last.ev = "end-call" /\ \E t \in last.pre : t[1] = "ended"
     \/ /\ last.ev = "disconnect"
        /\ last.pre # {}
        /\ \E r \in DOMAIN requester : requester[r] = last.sock
  /\ MapGet(staffEmailSessions, "acs@college.edu") \in connected
  /\ activeCalls = << >>

\* The step just taken broadcast a status other than busy for the identity.
NotBusyBroadcast ==
  \E d \in out : d.ev = "staff_status_update" /\ d.id[1] = "acs@college.edu" /\ d.id[2] # "busy"

\* C36: once a call whose acceptance broadcast 'staff_status_update' busy for
\* an identity has ended, by 'end-call' or by the client's disconnect, a
\* broadcast that is not busy for that identity follows.
C36_BusyReleasedAfterCall == CallTerminated ~> NotBusyBroadcast



\* The connection a holds a staff user whose id and email are bound to the
\* other live connection b: the user logged in on a and later on b.
StaleOf(a, b) ==
  LET user == UserOf(connectedUsers, a)
  IN /\ a # b
     /\ {a, b} \subseteq connected
     /\ user # NoUser
     /\ user.role = "staff"
     /\ UserOf(connectedUsers, b) = user
     /\ MapGet(staffSessions, user.id) = b
     /\ MapGet(staffEmailSessions, user.email) = b

\* C37: when connection a, on which an identity logged in before it logged in
\* on connection b, disconnects, the identity's id and email still resolve to
\* b and no 'staff_status_update' offline is broadcast for its email.
C37_StaleDisconnectKeepsNewer ==
  [][\A a, b \in Sockets :
       StaleOf(a, b) /\ last'.ev = "disconnect" /\ last'.sock = a
         => LET user == UserOf(connectedUsers, a)
            IN /\ MapGet(staffSessions', user.id) = b
               /\ MapGet(staffEmailSessions', user.email) = b
               /\ \A d \in out' : ~(d.ev = "staff_status_update"
                                     /\ d.id = << user.email, "offline" >>)]_vars



\* ------------------------------------------------- endpoints of a new session
\* One staff member logs in; clients send 'video-call-request' with any
\* connection id in the payload's clientSocketId, and 'call-request'; any
\* connection answers with an accepting 'video-call-response' or
\* 'call-accepted'.  The database is down.
NextBind ==
  \/ Connect
  \/ \E s \in Sockets :
       /\ procs = {}
       /\ staffSessions = EmptyMap
       /\ StaffLogin(s, ProfileUser(staffProfiles[1]))
  \/ \E p \in procs : StaffLoginResume(p)
  \/ \E s \in Sockets, c \in Sockets :
       nVcr < MaxRespondRequests /\ VideoCallRequest(s, ByShortCode, c)
  \/ \E s \in Sockets, r \in {VcrId(i) : i \in 1..nVcr} :
       nCall < MaxSignalCalls /\ VideoCallResponse(s, r, TRUE, "ACS")
  \/ \E s \in Sockets : nReq < MaxRespondRequests /\ CallRequest(s, "acs@college.edu")
  \/ \E s \in Sockets, r \in {ReqId(i) : i \in 1..nReq} :
       nCall < MaxSignalCalls /\ CallAccepted(s, r, "acs@college.edu")

SpecBind == Init /\ [][NextBind]_vars

\* C38: a session created by accepting a request has as client connection the
\* connection that submitted the request, and as staff connection the
\* connection registered for the staff identity the request targets.
C38_SessionBindsRequestEndpoints ==
  [][\A i \in DOMAIN activeCalls' :
       ~CallHas(activeCalls, activeCalls'[i].callId)
         => LET session == activeCalls'[i]
                r == last'.id[1]
            IN /\ session.clientSocketId = requester[r]
               /\ session.staffSocketId =
                    IF r \in DOMAIN videoCallRequests
                    THEN MapGet(staffSessions, videoCallRequests[r].staffId)
                    ELSE MapGet(staffEmailSessions, incomingCallRequests[r].staffEmail)]_vars



\* C39: in every reachable state each connection id stored as a value in
\* staffSessions is a key of connectedUsers.
C39_StaffSessionsHaveUsers ==
  \A k \in DOMAIN staffSessions : staffSessions[k] \in DOMAIN connectedUsers



\* C40: when the 'staff-login' handler resumes after its awaits on a
\* connection that has disconnected meanwhile, the identity's
\* pendingStaffCalls queue is not emptied.
C40_QueueKeptForDeadConnection ==
  [][\A p \in procs :
       /\ p.kind = "staff-login"
       /\ p.sock \notin connected
       /\ p \notin procs'
       /\ last'.ev = "staff-login-deliver"
       /\ last'.sock = p.sock
       => GetList(pendingStaffCalls', p.user.id) = GetList(pendingStaffCalls, p.user.id)]_vars


====
